---- MODULE Spec2Model ----
(***************************************************************************)
(* Order admission and pricing core of the broker                          *)
(* (crates/broker/src/order_picker.rs).                                    *)
(*                                                                         *)
(* Units: prices and gas balances in wei, stake in stake-token base units, *)
(* time in seconds, gas in gas units, cycles in millions of cycles.        *)
(* Request ids and digests are short strings; an order id is the sequence  *)
(* of the three parts "0x<request id>-<digest>-<fulfillment type>" that    *)
(* OrderRequest::id() formats.                                             *)
(***************************************************************************)
EXTENDS Integers, Sequences, FiniteSets, TLC

(* ------------------------------ bounds --------------------------------- *)
\* inputs of the environment in one behaviour: orders sent on the inbound
\* channel, Locked / Fulfilled events, clock ticks, configuration writes, dedup
\* cache expiries, shutdown
MaxInputs == 3
\* orders of a burst (BurstSpec): one more than the least positive capacity
MaxBurst == 4
\* inputs of one behaviour of PriceSpec: direct calls of
\* price_order_and_update_state, Locked / Fulfilled events, clock ticks
MaxCalls == 2
\* inputs of the environment in one behaviour of FairSpec
MaxFairInputs == 2

(* ------------------------- program constants --------------------------- *)
\* FAST_LOCK_THRESHOLD_ETH = 1e-16 ETH, i.e. 100 wei: format_ether(maxPrice)
\* parsed as f64 is >= 1e-16 exactly when maxPrice >= 100 wei
FAST_LOCK_THRESHOLD_WEI == 100
\* FAST_LOCK_MAX_CYCLES = 5_000_000_000 cycles, in millions of cycles
FAST_LOCK_MAX_MCYCLES == 5000
FAST_LOCK_MAX_STAKE == 1000
FAST_LOCK_MIN_DEADLINE == 300
\* "let estimated_gas = 500_000" of fast_evaluate_order
FAST_LOCK_ESTIMATED_GAS == 500000
\* capacity = max_concurrent_preflights * 3
CAPACITY_FACTOR == 3
\* "available_capacity * 2" of the dispatch step
DISPATCH_FACTOR == 2
\* broadcast::channel(100)
ORDER_STATE_CAPACITY == 100
\* cycles of a million cycles
ONE_MILLION == 1000000
\* TEST_CHANNEL_CAPACITY of the downstream channel is 50; the model's channel
\* holds PricedCapacity orders
PricedCapacity == 2
\* seconds one clock tick advances
TickSecs == 300

LockAndFulfill == "LockAndFulfill"
FulfillAfterLockExpire == "FulfillAfterLockExpire"
FulfillmentTypes == {LockAndFulfill, FulfillAfterLockExpire}

Rids == {"r1", "r2"}
Digests == {"d1"}
\* client addresses of requests
Clients == {"a1", "a2"}
\* requirements.selector: one the prover supports, one it does not
Selectors == {"Any", "Groth16V1_1"}

(* ------------------------------ orders --------------------------------- *)
\* the request and fulfillment type of an OrderRequest, without its instance
\* number
OrderShapes ==
  [rid : Rids, digest : Digests, ftype : FulfillmentTypes,
   maxPrice : {99, 100}, lockStake : {100, 150}, biddingStart : {0},
   lockTimeout : {299, 600, 601, 900}, timeout : {1200},
   client : Clients, selector : Selectors, journal_bytes : {1, 2}]

\* the order the tests generate by default: its client, selector and journal
DefaultRequest(s) ==
  s.client = "a1" /\ s.selector = "Any" /\ s.journal_bytes = 1

\* the orders the relay presents to a running controller
Catalogue ==
  {s \in OrderShapes : /\ DefaultRequest(s)
                       /\ s.lockTimeout = 900
                       /\ s.lockStake = 100
                       /\ s.maxPrice = (IF s.rid = "r1" THEN 100 ELSE 99)}

\* OrderRequest::id(): "0x{request id:x}-{request digest}-{fulfillment type:?}"
OrderId(o) == <<o.rid, o.digest, o.ftype>>

\* str::contains on an order id: hexadecimal digits and "-" cannot form the
\* name of a fulfillment type, so a match is a match of the last part
Contains(order_id, needle) == \E i \in DOMAIN order_id : order_id[i] = needle

(* ------------------------------- maps ---------------------------------- *)
EmptyMap == [x \in {} |-> 0]
MapRemove(f, k) == [x \in (DOMAIN f) \ {k} |-> f[x]]
MapPut(f, k, v) == [x \in (DOMAIN f) \cup {k} |-> IF x = k THEN v ELSE f[x]]
MapRestrict(f, S) == [x \in S |-> f[x]]

Range(s) == {s[i] : i \in DOMAIN s}
RemoveAt(s, i) == SubSeq(s, 1, i - 1) \o SubSeq(s, i + 1, Len(s))
Min(a, b) == IF a <= b THEN a ELSE b
\* U256::saturating_sub
SatSub(a, b) == IF a >= b THEN a - b ELSE 0

\* an order instance: a shape with the instance number the model gives it
\* (and, as a ghost, whether it was sent while an aborted controller was down)
MkOrder(s, n) ==
  [seq |-> n, sent_while_down |-> FALSE, rid |-> s.rid, digest |-> s.digest, ftype |-> s.ftype,
   maxPrice |-> s.maxPrice, lockStake |-> s.lockStake,
   biddingStart |-> s.biddingStart, lockTimeout |-> s.lockTimeout,
   timeout |-> s.timeout, client |-> s.client, selector |-> s.selector,
   journal_bytes |-> s.journal_bytes]

(* --------------------------- environment ------------------------------- *)
\* what the balance oracle and the gas-price source report
AllChains ==
  [gas_balance : {600000, 2000000}, stake_balance : {149, 150}, gas_price : {1}]
Chains == {c \in AllChains : c.gas_balance = 2000000 /\ c.stake_balance = 150}

\* the configuration keys the controller and price_order read
\* (an Option is a sequence of no or one element)
AllConfigs ==
  [max_concurrent_preflights : {0, 1}, order_pricing_priority : {"Fifo", "ShortestExpiry"},
   min_deadline : {0, 150, 600}, fulfill_gas_estimate : {750000},
   allow_client_addresses : {<<>>, <<{"a1"}>>},
   deny_requestor_addresses : {<<>>, <<{"a2"}>>},
   max_stake : {50, 1000}, max_journal_bytes : {1},
   mcycle_price : {1, 200000000}]

\* the configuration of the tests but for capacity and min_deadline: no
\* allow-list, no deny-list, a max_stake and an mcycle_price that fit the orders
DefaultMarket(c) ==
  /\ c.allow_client_addresses = <<>> /\ c.deny_requestor_addresses = <<>>
  /\ c.max_stake = 1000 /\ c.mcycle_price = 1

Configs == {c \in AllConfigs : DefaultMarket(c) /\ c.min_deadline = 0}

\* results of the prover's preflight (and of the staging before it)
PreflightResults == {"ok", "session_limit", "guest_panic", "error", "fetch_error"}
\* total_cycles of a successful preflight, in millions of cycles
PreflightMcycles == 1

(* ----------------------- resource accounting --------------------------- *)
\* utils::estimate_gas_to_fulfill: the base estimate of the configuration
estimate_gas_to_fulfill(cfg, o) == cfg.fulfill_gas_estimate

RECURSIVE estimate_gas_to_fulfill_pending(_, _)
estimate_gas_to_fulfill_pending(cfg, committed) ==
  IF committed = {} THEN 0
  ELSE LET p == CHOOSE q \in committed : TRUE
       IN estimate_gas_to_fulfill(cfg, p.order)
            + estimate_gas_to_fulfill_pending(cfg, committed \ {p})

gas_balance_reserved(ch, cfg, committed) ==
  ch.gas_price * estimate_gas_to_fulfill_pending(cfg, committed)

\* an available balance that would go below 0
available_gas_balance_unsaturated(ch, cfg, committed) ==
  ch.gas_balance - gas_balance_reserved(ch, cfg, committed)

available_gas_balance(ch, cfg, committed) ==
  SatSub(ch.gas_balance, gas_balance_reserved(ch, cfg, committed))

available_stake_balance(ch) == ch.stake_balance

(* ----------------------------- pricing --------------------------------- *)
LockExpiration(o) == o.biddingStart + o.lockTimeout
OrderExpiration(o) == o.biddingStart + o.timeout

\* what the checks of an evaluation read: the ghost record of its readings
NoReadings == [read |-> FALSE, stake |-> 0, gas |-> 0, gas_price |-> 0]
Readings(ch, cfg, committed) ==
  [read |-> TRUE, stake |-> available_stake_balance(ch),
   gas |-> available_gas_balance(ch, cfg, committed), gas_price |-> ch.gas_price]

\* OrderPricingOutcome, None (of fast_evaluate_order), Err, and Continue for an
\* evaluation that goes on to the preflight
Outcome(kind, cycles, target, expiry, staged, rd) ==
  [kind |-> kind, total_cycles |-> cycles, target_timestamp_secs |-> target,
   expiry_secs |-> expiry, staged |-> staged, readings |-> rd]
Pending == Outcome("Pending", 0, 0, 0, FALSE, NoReadings)
None == Outcome("None", 0, 0, 0, FALSE, NoReadings)
Skip == Outcome("Skip", 0, 0, 0, FALSE, NoReadings)
Err == Outcome("Err", 0, 0, 0, FALSE, NoReadings)
Continue == Outcome("Continue", 0, 0, 0, FALSE, NoReadings)

\* SupportedSelectors::is_supported
is_supported(selector) == selector = "Any"

\* utils::calculate_exec_limit_from_price: the cycles max_price pays for at
\* mcycle_price per million cycles, rounded down
calculate_exec_limit_from_price(max_price, mcycle_price) ==
  (max_price * ONE_MILLION) \div mcycle_price

fast_evaluate_order(o, t, ch, cfg, committed, rpc_ok) ==
  LET lock_expiration == LockExpiration(o)
      is_high_value == o.maxPrice >= FAST_LOCK_THRESHOLD_WEI
      is_low_complexity == o.lockStake < FAST_LOCK_MAX_STAKE
      has_sufficient_time == SatSub(lock_expiration, t) >= FAST_LOCK_MIN_DEADLINE
      order_gas_cost == ch.gas_price * FAST_LOCK_ESTIMATED_GAS
      available_gas == available_gas_balance(ch, cfg, committed)
      available_stake == available_stake_balance(ch)
  IN IF lock_expiration <= t THEN None
     ELSE IF is_high_value /\ is_low_complexity /\ has_sufficient_time
          THEN IF ~rpc_ok THEN Err
               ELSE IF order_gas_cost <= available_gas /\ o.lockStake <= available_stake
                    THEN Outcome("Lock", FAST_LOCK_MAX_MCYCLES, 0, lock_expiration,
                                 FALSE, Readings(ch, cfg, committed))
                    ELSE None
          ELSE None

\* price_order from the locked check to the gas check before the preflight
price_order_checks(o, t, ch, cfg, committed, locked, fulfilled, rpc_ok) ==
  LET lock_expired == o.ftype = FulfillAfterLockExpire
      expiration == IF lock_expired THEN OrderExpiration(o) ELSE LockExpiration(o)
      lockin_stake == IF lock_expired THEN 0 ELSE o.lockStake
      seconds_left == SatSub(expiration, t)
      available_stake == available_stake_balance(ch)
      available_gas == available_gas_balance(ch, cfg, committed)
      gas_cost == ch.gas_price * estimate_gas_to_fulfill(cfg, o)
  IN IF o.ftype = LockAndFulfill /\ o.rid \in locked THEN Skip
     ELSE IF o.ftype = FulfillAfterLockExpire /\ o.rid \in fulfilled THEN Skip
     ELSE IF expiration <= t THEN Skip
     ELSE IF seconds_left <= cfg.min_deadline THEN Skip
     ELSE IF /\ cfg.allow_client_addresses # <<>>
             /\ o.client \notin cfg.allow_client_addresses[1] THEN Skip
     ELSE IF /\ cfg.deny_requestor_addresses # <<>>
             /\ o.client \in cfg.deny_requestor_addresses[1] THEN Skip
     ELSE IF ~is_supported(o.selector) THEN Skip
     ELSE IF ~rpc_ok THEN Err
     ELSE IF lockin_stake > available_stake THEN Skip
     ELSE IF gas_cost > available_gas THEN Skip
     ELSE Outcome("Continue", 0, 0, 0, FALSE, Readings(ch, cfg, committed))

\* price_order from the staging of image and input to its end
\* (stake_read: the stake balance the checks before the preflight read). The
\* configurations of the model set no peak_prove_khz and no max_mcycle_limit
\* below the limit the price gives; a guest that would run PreflightMcycles
\* million cycles exceeds a session limit below that.
price_order_preflight(o, ch, cfg, committed, pre, rpc_ok, stake_read) ==
  LET available_gas == available_gas_balance(ch, cfg, committed)
      gas_cost == ch.gas_price * estimate_gas_to_fulfill(cfg, o)
      rd == [Readings(ch, cfg, committed) EXCEPT !.stake = stake_read]
      exec_limit_cycles == calculate_exec_limit_from_price(o.maxPrice, cfg.mcycle_price)
  IN IF pre = "fetch_error" THEN Err
     ELSE IF pre = "session_limit" THEN Skip
     ELSE IF pre = "ok" /\ exec_limit_cycles < PreflightMcycles * ONE_MILLION THEN Skip
     ELSE IF pre \in {"guest_panic", "error"} THEN Err
     ELSE IF ~rpc_ok THEN Err
     ELSE IF gas_cost > available_gas THEN Skip
     ELSE IF o.ftype = LockAndFulfill
          THEN Outcome("Lock", PreflightMcycles, 0, LockExpiration(o), TRUE, rd)
          ELSE Outcome("ProveAfterLockExpire", PreflightMcycles, LockExpiration(o),
                       OrderExpiration(o), TRUE, rd)

(* ------------------ the reads of an evaluation (ghost) ----------------- *)
\* one read of the environment: the balance it returned, 0 for the preflight
Read(what, value) == [what |-> what, value |-> value]

\* the reads fast_evaluate_order makes, in the order it makes them
fast_reads(o, t, ch, cfg, committed, rpc_ok) ==
  IF LockExpiration(o) <= t THEN <<>>
  ELSE IF /\ o.maxPrice >= FAST_LOCK_THRESHOLD_WEI
          /\ o.lockStake < FAST_LOCK_MAX_STAKE
          /\ SatSub(LockExpiration(o), t) >= FAST_LOCK_MIN_DEADLINE
          /\ rpc_ok
       THEN <<Read("gas", available_gas_balance(ch, cfg, committed)),
              Read("stake", available_stake_balance(ch))>>
       ELSE <<>>

\* the reads price_order makes between the fast evaluation and the preflight:
\* none when a check before the balances ends the evaluation, the stake balance
\* alone when the stake check ends it
checks_reads(o, t, ch, cfg, committed, locked, fulfilled, rpc_ok) ==
  LET lock_expired == o.ftype = FulfillAfterLockExpire
      expiration == IF lock_expired THEN OrderExpiration(o) ELSE LockExpiration(o)
      lockin_stake == IF lock_expired THEN 0 ELSE o.lockStake
      reaches_balances ==
        /\ ~(o.ftype = LockAndFulfill /\ o.rid \in locked)
        /\ ~(o.ftype = FulfillAfterLockExpire /\ o.rid \in fulfilled)
        /\ expiration > t
        /\ SatSub(expiration, t) > cfg.min_deadline
        /\ (cfg.allow_client_addresses = <<>> \/ o.client \in cfg.allow_client_addresses[1])
        /\ (cfg.deny_requestor_addresses = <<>>
              \/ o.client \notin cfg.deny_requestor_addresses[1])
        /\ is_supported(o.selector)
        /\ rpc_ok
  IN IF ~reaches_balances THEN <<>>
     ELSE IF lockin_stake > available_stake_balance(ch)
          THEN <<Read("stake", available_stake_balance(ch))>>
          ELSE <<Read("stake", available_stake_balance(ch)),
                 Read("gas", available_gas_balance(ch, cfg, committed))>>

\* the reads price_order makes from the preflight on
preflight_reads(o, ch, cfg, committed, pre, rpc_ok) ==
  IF pre = "fetch_error" THEN <<>>
  ELSE IF /\ pre = "ok"
          /\ calculate_exec_limit_from_price(o.maxPrice, cfg.mcycle_price)
                >= PreflightMcycles * ONE_MILLION
          /\ rpc_ok
       THEN <<Read("preflight", 0), Read("gas", available_gas_balance(ch, cfg, committed))>>
       ELSE <<Read("preflight", 0)>>

(* ------------------------- priority policy ----------------------------- *)
\* index of the pending order with the least expiration, the first of equals
ShortestExpiryIndex(pend) ==
  LET exp(o) == IF o.ftype = FulfillAfterLockExpire THEN OrderExpiration(o)
                ELSE LockExpiration(o)
  IN CHOOSE i \in DOMAIN pend :
       \A j \in DOMAIN pend : exp(pend[i]) < exp(pend[j]) \/ (exp(pend[i]) = exp(pend[j]) /\ i <= j)

\* select_next_pricing_order: the index it takes out of a non-empty queue
select_next_pricing_order(pend, mode) ==
  IF mode = "ShortestExpiry" THEN ShortestExpiryIndex(pend) ELSE 1

(* ----------------------------- preemption ------------------------------ *)
\* handle_lock_event without the test of the fulfillment type: it treats the
\* request as handle_fulfill_event does
handle_lock_event_any_type(request_id, act, pend) ==
  LET order_tasks == IF request_id \in DOMAIN act THEN act[request_id] ELSE EmptyMap
      keep(order) == order.rid # request_id
  IN [active_tasks |-> MapRemove(act, request_id),
      cancel |-> {order_tasks[k] : k \in DOMAIN order_tasks},
      pending_orders |-> SelectSeq(pend, keep)]

\* handle_lock_event that drops the request's entry of the table with the
\* tokens it does not cancel
handle_lock_event_drops_entry(request_id, act, pend) ==
  LET order_tasks == IF request_id \in DOMAIN act THEN act[request_id] ELSE EmptyMap
      gone == {k \in DOMAIN order_tasks : Contains(k, "LockAndFulfill")}
      keep(order) == ~(order.rid = request_id /\ order.ftype = LockAndFulfill)
  IN [active_tasks |-> MapRemove(act, request_id),
      cancel |-> {order_tasks[k] : k \in gone},
      pending_orders |-> SelectSeq(pend, keep)]

handle_lock_event(request_id, act, pend) ==
  LET order_tasks == IF request_id \in DOMAIN act THEN act[request_id] ELSE EmptyMap
      gone == {k \in DOMAIN order_tasks : Contains(k, "LockAndFulfill")}
      kept == MapRestrict(order_tasks, (DOMAIN order_tasks) \ gone)
      keep(order) == ~(order.rid = request_id /\ order.ftype = LockAndFulfill)
  IN [active_tasks |-> IF request_id \notin DOMAIN act THEN act
                       ELSE IF DOMAIN kept = {} THEN MapRemove(act, request_id)
                       ELSE MapPut(act, request_id, kept),
      cancel |-> {order_tasks[k] : k \in gone},
      pending_orders |-> SelectSeq(pend, keep)]

\* handle_fulfill_event that removes the tasks of the request without
\* cancelling their tokens
handle_fulfill_event_no_cancel(request_id, act, pend) ==
  LET keep(order) == order.rid # request_id
  IN [active_tasks |-> MapRemove(act, request_id),
      cancel |-> {},
      pending_orders |-> SelectSeq(pend, keep)]

handle_fulfill_event(request_id, act, pend) ==
  LET order_tasks == IF request_id \in DOMAIN act THEN act[request_id] ELSE EmptyMap
      keep(order) == order.rid # request_id
  IN [active_tasks |-> MapRemove(act, request_id),
      cancel |-> {order_tasks[k] : k \in DOMAIN order_tasks},
      pending_orders |-> SelectSeq(pend, keep)]

(* ------------------------------- state --------------------------------- *)
VARIABLES
  now,               \* now_timestamp()
  chain,             \* balances and gas price of the signer
  config,            \* the configuration file
  db_locked,         \* requests the database records as locked
  db_fulfilled,      \* requests the database records as fulfilled
  db_skipped,        \* skip records: the orders insert_skipped_request wrote
  db_committed,      \* priced orders committed downstream (get_committed_orders)
  order_cache,       \* order ids in the dedup cache
  new_order_rx,      \* the inbound order channel
  order_state_rx,    \* the controller's subscription to order_state_tx
  priced_orders_rx,  \* the downstream channel
  ctrl_pc,           \* "idle", "running", "draining", "exited" or "aborted"
  cancel_token,      \* the controller's cancellation token is cancelled
  pending_orders,    \* the controller's pending queue
  active_tasks,      \* request id -> order id -> token of the task
  tasks,             \* the JoinSet: tasks spawned and not yet joined
  current_capacity,
  priority_mode,
  task,              \* every pricing task started: its order, position, result
  cancelled,         \* task tokens cancelled by handle_lock/fulfill_event or a caller
  limits,            \* the bound of this behaviour: [inputs], and whether the
                     \* tasks keep the ghost record of their reads: [trace]
  stream,            \* the order stream of the market client
  nsent, nenv, ncalls,   \* counters of the bounds
  emitted,           \* ghost: log of the orders sent downstream
  removed_pending,   \* ghost: orders a Locked/Fulfilled event took out of the queue
  dup_dropped,       \* ghost: orders dropped at dispatch as duplicates
  lost_pending,      \* ghost: orders left in the queue when the controller exited
  lock_handled,      \* ghost: requests whose Locked event the controller handled
  fulfill_handled,   \* ghost: requests whose Fulfilled event the controller handled
  eval_count         \* ghost: order id -> tasks spawned since its cache entry began

envVars == <<now, chain, config, db_locked, db_fulfilled, db_skipped, db_committed,
             nenv, limits, stream>>
chanVars == <<new_order_rx, order_state_rx, priced_orders_rx, nsent>>
ctrlVars == <<ctrl_pc, cancel_token, pending_orders, active_tasks, tasks,
              current_capacity, priority_mode, order_cache>>
taskVars == <<task, cancelled, ncalls>>
ghostVars == <<emitted, removed_pending, dup_dropped, lost_pending, lock_handled,
               fulfill_handled, eval_count>>
vars == <<envVars, chanVars, ctrlVars, taskVars, ghostVars>>

OrderIds == {OrderId(s) : s \in OrderShapes}

PricingPcs == {"fast", "checks", "preflight"}

\* a task at the start of price_order_and_update_state; child: its token is a
\* child of the controller's token. Ghosts: what the database recorded of the
\* request when the call began, and whether a Locked / Fulfilled event had
\* cancelled the token when the task sent its order or wrote its skip record;
\* ret: the value the call returns; rpc_failed (ghost): the evaluation ended in
\* an error of a balance, gas-price or database read
\* reads (ghost): the reads of the environment the evaluation made, in order
NewTask(order, child) ==
  [order |-> order, pc |-> "fast", res |-> Pending, stake_read |-> 0,
   how |-> "running", child |-> child, preempted_at_end |-> FALSE,
   ret |-> FALSE, rpc_failed |-> FALSE, reads |-> <<>>,
   locked_at_call |-> order.rid \in db_locked,
   fulfilled_at_call |-> order.rid \in db_fulfilled]

\* CancellationToken::is_cancelled of the token of task t
IsCancelled(t) == t \in cancelled \/ (task[t].child /\ cancel_token)

\* payloads of ping and pong frames ("rand::random::<[u8; 4]>()")
Payloads == {1, 2}

\* what "socket.next()" returns: a text message that parses as an order or not,
\* a ping, a pong, a close, a binary or raw frame, an error, the end of stream
ServerFrames ==
  [type : {"Ping", "Pong"}, data : Payloads]
    \cup [type : {"Order", "BadText", "Close", "Binary", "Frame", "Error", "End"},
          data : {0}]

\* order_stream before its loop: no ping sent (ping_data = None), nothing
\* yielded. out: the frames the client sent; ghosts: the payload of the last
\* ping sent, why the stream ended, the frame the last step handled (or the
\* tick it took), n: the steps of the loop so far, pongs: the pongs received,
\* fetched: the calls of fetch_order made on the client and what they returned
StreamStart ==
  [pc |-> "open", ping_data |-> <<>>, out |-> <<>>, yielded |-> 0,
   last_ping |-> <<>>, why |-> "", last |-> [type |-> "", data |-> 0], n |-> 0,
   pongs |-> 0, fetched |-> <<>>]

InitCommon ==
  /\ stream = StreamStart
  /\ now = 0
  /\ db_locked = {} /\ db_fulfilled = {} /\ db_skipped = {} /\ db_committed = {}
  /\ order_cache = {}
  /\ new_order_rx = <<>> /\ order_state_rx = <<>> /\ priced_orders_rx = <<>>
  /\ ctrl_pc = "idle" /\ cancel_token = FALSE
  /\ pending_orders = <<>> /\ active_tasks = EmptyMap /\ tasks = {}
  /\ current_capacity = 0 /\ priority_mode = "Fifo"
  /\ task = EmptyMap /\ cancelled = {}
  /\ nsent = 0 /\ nenv = 0 /\ ncalls = 0
  /\ emitted = {} /\ removed_pending = {} /\ dup_dropped = {} /\ lost_pending = {}
  /\ lock_handled = {} /\ fulfill_handled = {}
  /\ eval_count = [k \in OrderIds |-> 0]

\* OrderPicker::new, before the supervisor starts the controller
Init ==
  /\ InitCommon
  /\ limits = [inputs |-> MaxInputs, trace |-> FALSE]
  /\ chain \in Chains
  /\ config \in Configs

(* ------------------------------ dispatch ------------------------------- *)
\* "tasks.len() < current_capacity" and the number of orders one iteration takes
max_orders_per_iteration(cap, ntasks, npending) ==
  IF npending > 0 /\ ntasks < cap
  THEN Min((cap - ntasks) * DISPATCH_FACTOR, npending)
  ELSE 0

\* a dedup check that finds no identity in the cache
IsDuplicate_never(cache, order_id) == FALSE

\* "picker.order_cache.get(&order_id).await.is_some()"
IsDuplicate(cache, order_id) == order_id \in cache

\* the loop over 0..max_orders_per_iteration
RECURSIVE SelectOrders(_, _, _)
SelectOrders(pend, mode, k) ==
  IF k = 0 \/ pend = <<>> THEN [selected |-> <<>>, pending_orders |-> pend]
  ELSE LET i == select_next_pricing_order(pend, mode)
           rest == SelectOrders(RemoveAt(pend, i), mode, k - 1)
       IN [selected |-> <<pend[i]>> \o rest.selected,
           pending_orders |-> rest.pending_orders]

\* the loop over selected_orders: dedup check, cache insert, token, spawn
RECURSIVE SpawnSelected(_, _)
SpawnSelected(sel, st) ==
  IF sel = <<>> THEN st
  ELSE LET order == Head(sel)
           order_id == OrderId(order)
           request_id == order.rid
           order_tasks == IF request_id \in DOMAIN st.active_tasks
                          THEN st.active_tasks[request_id] ELSE EmptyMap
       IN IF IsDuplicate(st.order_cache, order_id)
          THEN SpawnSelected(Tail(sel),
                 [st EXCEPT !.dup_dropped = @ \cup {order.seq}])
          ELSE SpawnSelected(Tail(sel),
                 [st EXCEPT
                    !.order_cache = @ \cup {order_id},
                    !.active_tasks = MapPut(@, request_id,
                                            MapPut(order_tasks, order_id, order.seq)),
                    !.tasks = @ \cup {order.seq},
                    !.task = MapPut(@, order.seq, NewTask(order, TRUE)),
                    !.eval_count = [@ EXCEPT ![order_id] = @ + 1]])

\* the dispatch step that ends every iteration of the controller's loop
Dispatch(pend, act, js, cap, mode) ==
  LET sel == SelectOrders(pend, mode,
                          max_orders_per_iteration(cap, Cardinality(js), Len(pend)))
  IN SpawnSelected(sel.selected,
       [pending_orders |-> sel.pending_orders, active_tasks |-> act, tasks |-> js,
        order_cache |-> order_cache, task |-> task, dup_dropped |-> dup_dropped,
        eval_count |-> eval_count])

ApplyDispatch(st) ==
  /\ pending_orders' = st.pending_orders
  /\ active_tasks' = st.active_tasks
  /\ tasks' = st.tasks
  /\ order_cache' = st.order_cache
  /\ task' = st.task
  /\ dup_dropped' = st.dup_dropped
  /\ eval_count' = st.eval_count

(* ----------------------------- controller ------------------------------ *)
read_config(cfg) ==
  [capacity |-> cfg.max_concurrent_preflights * CAPACITY_FACTOR,
   priority |-> cfg.order_pricing_priority]

Finished == {t \in tasks : task[t].pc = "done"}

\* a controller that would start with a dedup cache of its own
CtrlStart_new_cache ==
  /\ ctrl_pc \in {"idle", "aborted"}
  /\ ctrl_pc' = "running"
  /\ current_capacity' = read_config(config).capacity
  /\ priority_mode' = read_config(config).priority
  /\ order_state_rx' = <<>>
  /\ pending_orders' = <<>> /\ active_tasks' = EmptyMap /\ tasks' = {}
  /\ order_cache' = {}
  /\ UNCHANGED <<envVars, new_order_rx, priced_orders_rx, nsent, cancel_token,
                 taskVars, ghostVars>>

\* RetryTask::spawn up to the loop
CtrlStart ==
  /\ ctrl_pc \in {"idle", "aborted"}
  /\ ctrl_pc' = "running"
  /\ current_capacity' = read_config(config).capacity
  /\ priority_mode' = read_config(config).priority
  /\ order_state_rx' = <<>>
  /\ pending_orders' = <<>> /\ active_tasks' = EmptyMap /\ tasks' = {}
  /\ UNCHANGED <<envVars, new_order_rx, priced_orders_rx, nsent, cancel_token,
                 order_cache, taskVars, ghostVars>>

\* where the arrival branch puts the order
Enqueue(pend, order) ==
  IF order.maxPrice >= FAST_LOCK_THRESHOLD_WEI THEN <<order>> \o pend
  ELSE Append(pend, order)

\* a controller that would still take inbound orders after its cancellation branch
CtrlRecvOrder_draining ==
  /\ ctrl_pc \in {"running", "draining"}
  /\ new_order_rx # <<>>
  /\ new_order_rx' = Tail(new_order_rx)
  /\ ApplyDispatch(Dispatch(Enqueue(pending_orders, Head(new_order_rx)),
                            active_tasks, tasks, current_capacity, priority_mode))
  /\ UNCHANGED <<envVars, order_state_rx, priced_orders_rx, nsent, ctrl_pc,
                 cancel_token, current_capacity, priority_mode, cancelled, ncalls,
                 emitted, removed_pending, lost_pending, lock_handled, fulfill_handled>>

\* select branch 1, "Some(order) = rx.recv()", and the dispatch step
CtrlRecvOrder ==
  /\ ctrl_pc = "running"
  /\ new_order_rx # <<>>
  /\ new_order_rx' = Tail(new_order_rx)
  /\ ApplyDispatch(Dispatch(Enqueue(pending_orders, Head(new_order_rx)),
                            active_tasks, tasks, current_capacity, priority_mode))
  /\ UNCHANGED <<envVars, order_state_rx, priced_orders_rx, nsent, ctrl_pc,
                 cancel_token, current_capacity, priority_mode, cancelled, ncalls,
                 emitted, removed_pending, lost_pending, lock_handled, fulfill_handled>>

\* select branch 2, "Ok(state_change) = order_state_rx.recv()", and the dispatch
\* step. A recv() that returns Err(Lagged) does not match the pattern: the
\* branch is disabled, nothing is handled and the select waits on for its
\* other branches
CtrlStateChange ==
  /\ ctrl_pc = "running"
  /\ new_order_rx = <<>>
  /\ order_state_rx # <<>>
  /\ LET ev == Head(order_state_rx)
         h == IF ev.kind = "Locked"
              THEN handle_lock_event(ev.request_id, active_tasks, pending_orders)
              ELSE IF ev.kind = "Fulfilled"
              THEN handle_fulfill_event(ev.request_id, active_tasks, pending_orders)
              ELSE [active_tasks |-> active_tasks, pending_orders |-> pending_orders,
                    cancel |-> {}]
     IN /\ order_state_rx' = Tail(order_state_rx)
        /\ cancelled' = cancelled \cup h.cancel
        /\ removed_pending' = removed_pending \cup
             ({o.seq : o \in Range(pending_orders)} \ {o.seq : o \in Range(h.pending_orders)})
        /\ lock_handled' = IF ev.kind = "Locked" THEN lock_handled \cup {ev.request_id}
                           ELSE lock_handled
        /\ fulfill_handled' = IF ev.kind = "Fulfilled"
                              THEN fulfill_handled \cup {ev.request_id}
                              ELSE fulfill_handled
        /\ IF ev.kind = "Lagged"
           THEN UNCHANGED <<pending_orders, active_tasks, tasks, order_cache, task,
                            dup_dropped, eval_count>>
           ELSE ApplyDispatch(Dispatch(h.pending_orders, h.active_tasks, tasks,
                                       current_capacity, priority_mode))
  /\ UNCHANGED <<envVars, new_order_rx, priced_orders_rx, nsent, ctrl_pc, cancel_token,
                 current_capacity, priority_mode, ncalls, emitted, lost_pending>>

\* the clean-up of the active-task table when a task is joined
JoinCleanup(act, request_id, order_id) ==
  IF request_id \in DOMAIN act
  THEN LET order_tasks == MapRemove(act[request_id], order_id)
       IN IF DOMAIN order_tasks = {} THEN MapRemove(act, request_id)
          ELSE MapPut(act, request_id, order_tasks)
  ELSE act

\* select branch 3, "Some(result) = tasks.join_next()", and the dispatch step
CtrlJoin(t) ==
  /\ ctrl_pc = "running"
  /\ new_order_rx = <<>>
  /\ order_state_rx = <<>>
  /\ t \in Finished
  /\ ApplyDispatch(Dispatch(pending_orders,
                            JoinCleanup(active_tasks, task[t].order.rid,
                                        OrderId(task[t].order)),
                            tasks \ {t}, current_capacity, priority_mode))
  /\ UNCHANGED <<envVars, chanVars, ctrl_pc, cancel_token, current_capacity,
                 priority_mode, cancelled, ncalls, emitted, removed_pending,
                 lost_pending, lock_handled, fulfill_handled>>

\* a controller whose tick would keep the capacity and priority mode it has
CtrlTick_stale ==
  /\ ctrl_pc = "running"
  /\ new_order_rx = <<>>
  /\ order_state_rx = <<>>
  /\ Finished = {}
  /\ UNCHANGED <<current_capacity, priority_mode>>
  /\ ApplyDispatch(Dispatch(pending_orders, active_tasks, tasks,
                            current_capacity, priority_mode))
  /\ UNCHANGED <<envVars, chanVars, ctrl_pc, cancel_token, cancelled, ncalls, emitted,
                 removed_pending, lost_pending, lock_handled, fulfill_handled>>

\* select branch 4, the capacity check interval, and the dispatch step
CtrlTick ==
  /\ ctrl_pc = "running"
  /\ new_order_rx = <<>>
  /\ order_state_rx = <<>>
  /\ Finished = {}
  /\ current_capacity' = read_config(config).capacity
  /\ priority_mode' = read_config(config).priority
  /\ ApplyDispatch(Dispatch(pending_orders, active_tasks, tasks,
                            read_config(config).capacity, read_config(config).priority))
  /\ UNCHANGED <<envVars, chanVars, ctrl_pc, cancel_token, cancelled, ncalls, emitted,
                 removed_pending, lost_pending, lock_handled, fulfill_handled>>

\* select branch 5, "cancel_token.cancelled()": the controller stops dispatching
CtrlCancelled ==
  /\ ctrl_pc = "running"
  /\ new_order_rx = <<>>
  /\ order_state_rx = <<>>
  /\ Finished = {}
  /\ cancel_token
  /\ ctrl_pc' = "draining"
  /\ UNCHANGED <<envVars, chanVars, cancel_token, pending_orders, active_tasks, tasks,
                 current_capacity, priority_mode, order_cache, taskVars, ghostVars>>

\* "while tasks.join_next().await.is_some() {}"
CtrlDrainJoin(t) ==
  /\ ctrl_pc = "draining"
  /\ t \in Finished
  /\ tasks' = tasks \ {t}
  /\ UNCHANGED <<envVars, chanVars, ctrl_pc, cancel_token, pending_orders, active_tasks,
                 current_capacity, priority_mode, order_cache, taskVars, ghostVars>>

\* a controller that would return without waiting for its tasks
CtrlExit_no_wait ==
  /\ ctrl_pc = "draining"
  /\ ctrl_pc' = "exited"
  /\ lost_pending' = lost_pending \cup {o.seq : o \in Range(pending_orders)}
  /\ pending_orders' = <<>>
  /\ active_tasks' = EmptyMap
  /\ UNCHANGED <<envVars, chanVars, cancel_token, tasks, current_capacity,
                 priority_mode, order_cache, taskVars, emitted, removed_pending,
                 dup_dropped, lock_handled, fulfill_handled, eval_count>>

\* "break" and "Ok(())": the loop's locals are dropped
CtrlExit ==
  /\ ctrl_pc = "draining"
  /\ tasks = {}
  /\ ctrl_pc' = "exited"
  /\ lost_pending' = lost_pending \cup {o.seq : o \in Range(pending_orders)}
  /\ pending_orders' = <<>>
  /\ active_tasks' = EmptyMap
  /\ UNCHANGED <<envVars, chanVars, cancel_token, tasks, current_capacity,
                 priority_mode, order_cache, taskVars, emitted, removed_pending,
                 dup_dropped, lock_handled, fulfill_handled, eval_count>>

(* --------------------------- pricing tasks ----------------------------- *)
\* a price_order_and_update_state whose Skip and Err arms return without the
\* skip record
AfterPricing_no_record(r) ==
  IF r.kind \in {"Lock", "ProveAfterLockExpire"} THEN "send" ELSE "done"

\* where price_order_and_update_state goes with a pricing result
AfterPricing(r) ==
  IF r.kind \in {"Lock", "ProveAfterLockExpire"} THEN "send" ELSE "record"

\* the order as it is sent downstream, with its annotations (and, as ghosts, the
\* readings of the evaluation, the time of the send, and whether the controller
\* had handled a Locked event of the request by then)
Priced(tk, t) ==
  [order |-> tk.order, kind |-> tk.res.kind, total_cycles |-> tk.res.total_cycles,
   target_timestamp |-> tk.res.target_timestamp_secs,
   expire_timestamp |-> tk.res.expiry_secs, staged |-> tk.res.staged,
   readings |-> tk.res.readings, sent_at |-> t,
   after_locked |-> tk.order.rid \in lock_handled]

\* the ghost record of a task's reads, kept in the behaviours that trace them
Trace(reads, rs) == IF limits.trace THEN reads \o rs ELSE reads

\* price_order: fast_evaluate_order
TaskFast(t, rpc_ok) ==
  /\ t \in DOMAIN task
  /\ task[t].pc = "fast"
  /\ LET r == fast_evaluate_order(task[t].order, now, chain, config, db_committed, rpc_ok)
         ok == fast_evaluate_order(task[t].order, now, chain, config, db_committed, TRUE)
         rs == fast_reads(task[t].order, now, chain, config, db_committed, rpc_ok)
     IN task' = [task EXCEPT ![t] =
                   IF r.kind = "None"
                   THEN [@ EXCEPT !.pc = "checks", !.reads = Trace(@, rs)]
                   ELSE [@ EXCEPT !.pc = AfterPricing(r), !.res = r,
                                  !.reads = Trace(@, rs),
                                  !.rpc_failed = (r.kind = "Err" /\ ok.kind # "Err")]]
  /\ UNCHANGED <<envVars, chanVars, ctrlVars, cancelled, ncalls, ghostVars>>

\* price_order: the checks before the preflight
TaskChecks(t, rpc_ok) ==
  /\ t \in DOMAIN task
  /\ task[t].pc = "checks"
  /\ LET r == price_order_checks(task[t].order, now, chain, config, db_committed,
                                 db_locked, db_fulfilled, rpc_ok)
         ok == price_order_checks(task[t].order, now, chain, config, db_committed,
                                  db_locked, db_fulfilled, TRUE)
         rs == checks_reads(task[t].order, now, chain, config, db_committed,
                            db_locked, db_fulfilled, rpc_ok)
     IN task' = [task EXCEPT ![t] =
                   IF r.kind = "Continue"
                   THEN [@ EXCEPT !.pc = "preflight", !.stake_read = r.readings.stake,
                                  !.reads = Trace(@, rs)]
                   ELSE [@ EXCEPT !.pc = AfterPricing(r), !.res = r,
                                  !.reads = Trace(@, rs),
                                  !.rpc_failed = (r.kind = "Err" /\ ok.kind # "Err")]]
  /\ UNCHANGED <<envVars, chanVars, ctrlVars, cancelled, ncalls, ghostVars>>

\* price_order: staging, preflight and the gas check after it
TaskPreflight(t, pre, rpc_ok) ==
  /\ t \in DOMAIN task
  /\ task[t].pc = "preflight"
  /\ LET r == price_order_preflight(task[t].order, chain, config, db_committed, pre,
                                    rpc_ok, task[t].stake_read)
         ok == price_order_preflight(task[t].order, chain, config, db_committed, pre,
                                     TRUE, task[t].stake_read)
         rs == preflight_reads(task[t].order, chain, config, db_committed, pre, rpc_ok)
     IN task' = [task EXCEPT ![t] =
                   [@ EXCEPT !.pc = AfterPricing(r), !.res = r,
                             !.reads = Trace(@, rs),
                             !.rpc_failed = (r.kind = "Err" /\ ok.kind # "Err")]]
  /\ UNCHANGED <<envVars, chanVars, ctrlVars, cancelled, ncalls, ghostVars>>

\* a cancelled call that would still write the skip record
TaskCancelled_recorded(t) ==
  /\ t \in DOMAIN task
  /\ task[t].pc \in PricingPcs
  /\ IsCancelled(t)
  /\ task' = [task EXCEPT ![t] = [@ EXCEPT !.pc = "done", !.how = "cancelled"]]
  /\ db_skipped' = db_skipped \cup {task[t].order}
  /\ UNCHANGED <<now, chain, config, db_locked, db_fulfilled, db_committed, nenv,
                 limits, stream, chanVars, ctrlVars, cancelled, ncalls, ghostVars>>

\* the select's branch "cancel_token.cancelled()"
TaskCancelled(t) ==
  /\ t \in DOMAIN task
  /\ task[t].pc \in PricingPcs
  /\ IsCancelled(t)
  /\ task' = [task EXCEPT ![t] = [@ EXCEPT !.pc = "done", !.how = "cancelled"]]
  /\ UNCHANGED <<envVars, chanVars, ctrlVars, cancelled, ncalls, ghostVars>>

\* "self.priced_orders_tx.send(order).await"
TaskSend(t) ==
  /\ t \in DOMAIN task
  /\ task[t].pc = "send"
  /\ Len(priced_orders_rx) < PricedCapacity
  /\ priced_orders_rx' = Append(priced_orders_rx, Priced(task[t], now))
  /\ emitted' = emitted \cup {Priced(task[t], now)}
  /\ task' = [task EXCEPT ![t] = [@ EXCEPT !.pc = "done", !.how = "emitted",
                                           !.ret = TRUE,
                                           !.preempted_at_end = t \in cancelled]]
  /\ UNCHANGED <<envVars, new_order_rx, order_state_rx, nsent, ctrlVars, cancelled,
                 ncalls, removed_pending, dup_dropped, lost_pending, lock_handled,
                 fulfill_handled, eval_count>>

\* "self.db.insert_skipped_request(&order).await" of the Skip and Err arms
TaskRecordSkip(t) ==
  /\ t \in DOMAIN task
  /\ task[t].pc = "record"
  /\ db_skipped' = db_skipped \cup {task[t].order}
  /\ task' = [task EXCEPT ![t] = [@ EXCEPT !.pc = "done", !.how = "skipped",
                                           !.preempted_at_end = t \in cancelled]]
  /\ UNCHANGED <<now, chain, config, db_locked, db_fulfilled, db_committed, nenv,
                 limits, stream, chanVars, ctrlVars, cancelled, ncalls, ghostVars>>

(* ---------------------------- environment ------------------------------ *)
\* the behaviour has inputs left
InputAllowed == nsent + nenv + ncalls < limits.inputs

\* the relay sends an order on the inbound channel
SendOrder(s) ==
  /\ InputAllowed
  /\ nsent' = nsent + 1
  /\ new_order_rx' = Append(new_order_rx,
       [MkOrder(s, nsent + 1) EXCEPT !.sent_while_down = (ctrl_pc = "aborted")])
  /\ UNCHANGED <<envVars, order_state_rx, priced_orders_rx, ctrlVars, taskVars,
                 ghostVars>>

Subscribed == ctrl_pc \in {"running", "draining"}

\* what the subscription's next recv() returns after messages were lost:
\* Err(RecvError::Lagged)
Lagged == [kind |-> "Lagged", request_id |-> "none"]

\* order_state_tx.send(ev) as the controller's receiver sees it: a channel that
\* already retains ORDER_STATE_CAPACITY unreceived messages loses the oldest
\* one, and the receiver's next recv() returns Lagged before the oldest
\* message retained
Broadcast(rx, ev) ==
  LET msgs == IF rx # <<>> /\ Head(rx) = Lagged THEN Tail(rx) ELSE rx
  IN IF Len(msgs) < ORDER_STATE_CAPACITY THEN Append(rx, ev)
     ELSE <<Lagged>> \o Append(Tail(msgs), ev)

\* the chain watcher records a lock and broadcasts OrderStateChange::Locked
ChainLocked(r) ==
  /\ InputAllowed
  /\ r \notin db_locked
  /\ nenv' = nenv + 1
  /\ db_locked' = db_locked \cup {r}
  /\ order_state_rx' =
       IF Subscribed
       THEN Broadcast(order_state_rx, [kind |-> "Locked", request_id |-> r])
       ELSE order_state_rx
  /\ UNCHANGED <<now, chain, config, db_fulfilled, db_skipped, db_committed, limits, stream,
                 new_order_rx, priced_orders_rx, nsent, ctrlVars, taskVars, ghostVars>>

\* the chain watcher records a fulfillment and broadcasts OrderStateChange::Fulfilled
ChainFulfilled(r) ==
  /\ InputAllowed
  /\ r \notin db_fulfilled
  /\ nenv' = nenv + 1
  /\ db_fulfilled' = db_fulfilled \cup {r}
  /\ order_state_rx' =
       IF Subscribed
       THEN Broadcast(order_state_rx, [kind |-> "Fulfilled", request_id |-> r])
       ELSE order_state_rx
  /\ UNCHANGED <<now, chain, config, db_locked, db_skipped, db_committed, limits, stream,
                 new_order_rx, priced_orders_rx, nsent, ctrlVars, taskVars, ghostVars>>

\* time passes
Tick ==
  /\ InputAllowed
  /\ nenv' = nenv + 1
  /\ now' = now + TickSecs
  /\ UNCHANGED <<chain, config, db_locked, db_fulfilled, db_skipped, db_committed,
                 limits, stream, chanVars, ctrlVars, taskVars, ghostVars>>

\* the operator changes the configuration file
ConfigWrite(c) ==
  /\ InputAllowed
  /\ c # config
  /\ nenv' = nenv + 1
  /\ config' = c
  /\ UNCHANGED <<now, chain, db_locked, db_fulfilled, db_skipped, db_committed,
                 limits, stream, chanVars, ctrlVars, taskVars, ghostVars>>

\* the downstream executor takes a priced order and commits to it
DownstreamRecv ==
  /\ priced_orders_rx # <<>>
  /\ priced_orders_rx' = Tail(priced_orders_rx)
  /\ db_committed' = db_committed \cup {Head(priced_orders_rx)}
  /\ UNCHANGED <<now, chain, config, db_locked, db_fulfilled, db_skipped, nenv,
                 limits, stream, new_order_rx, order_state_rx, nsent, ctrlVars, taskVars,
                 ghostVars>>

\* the supervisor cancels the controller's token
Shutdown ==
  /\ ctrl_pc = "running"
  /\ ~cancel_token
  /\ InputAllowed
  /\ nenv' = nenv + 1
  /\ cancel_token' = TRUE
  /\ UNCHANGED <<now, chain, config, db_locked, db_fulfilled, db_skipped, db_committed,
                 limits, stream, chanVars, ctrl_pc, pending_orders, active_tasks, tasks,
                 current_capacity, priority_mode, order_cache, taskVars, ghostVars>>

\* the hour of a dedup cache entry ends (time_to_live)
CacheExpire(k) ==
  /\ k \in order_cache
  /\ InputAllowed
  /\ nenv' = nenv + 1
  /\ order_cache' = order_cache \ {k}
  /\ eval_count' = [eval_count EXCEPT ![k] = 0]
  /\ UNCHANGED <<now, chain, config, db_locked, db_fulfilled, db_skipped, db_committed,
                 limits, stream, chanVars, ctrl_pc, cancel_token, pending_orders, active_tasks,
                 tasks, current_capacity, priority_mode, taskVars, emitted,
                 removed_pending, dup_dropped, lost_pending, lock_handled,
                 fulfill_handled>>

(* --------------------------- specification ----------------------------- *)
TaskStep ==
  \/ \E t \in DOMAIN task, rpc_ok \in BOOLEAN : TaskFast(t, rpc_ok)
  \/ \E t \in DOMAIN task, rpc_ok \in BOOLEAN : TaskChecks(t, rpc_ok)
  \/ \E t \in DOMAIN task, pre \in PreflightResults, rpc_ok \in BOOLEAN :
       TaskPreflight(t, pre, rpc_ok)
  \/ \E t \in DOMAIN task : TaskCancelled(t)
  \/ \E t \in DOMAIN task : TaskSend(t)
  \/ \E t \in DOMAIN task : TaskRecordSkip(t)

CtrlStep ==
  \/ CtrlStart
  \/ CtrlRecvOrder
  \/ CtrlStateChange
  \/ \E t \in tasks : CtrlJoin(t)
  \/ CtrlTick
  \/ CtrlCancelled
  \/ \E t \in tasks : CtrlDrainJoin(t)
  \/ CtrlExit

EnvStep ==
  \/ \E s \in Catalogue : SendOrder(s)
  \/ \E r \in Rids : ChainLocked(r)
  \/ \E r \in Rids : ChainFulfilled(r)
  \/ Tick
  \/ \E c \in Configs : ConfigWrite(c)
  \/ DownstreamRecv
  \/ Shutdown
  \/ \E k \in OrderIds : CacheExpire(k)

Next == CtrlStep \/ TaskStep \/ EnvStep

Spec == Init /\ [][Next]_vars

(* ------------- direct calls of price_order_and_update_state ------------ *)
\* the orders a caller prices directly, as the tests of the module do
PriceShapes ==
  {s \in OrderShapes : s.rid = "r1" /\ DefaultRequest(s) /\ s.lockTimeout \in {299, 900}}
PriceConfigs ==
  {c \in AllConfigs : /\ c.max_concurrent_preflights = 1
                       /\ c.order_pricing_priority = "Fifo"
                       /\ DefaultMarket(c) /\ c.min_deadline \in {0, 150}}

\* a call with a token of the caller's own; calls are made one after the other
CallPriceOrder(s) ==
  /\ InputAllowed
  /\ \A t \in DOMAIN task : task[t].pc = "done"
  /\ ncalls' = ncalls + 1
  /\ task' = MapPut(task, ncalls + 1, NewTask(MkOrder(s, ncalls + 1), FALSE))
  /\ UNCHANGED <<envVars, chanVars, ctrlVars, cancelled, ghostVars>>

\* the caller cancels the token of a call
CancelCall(t) ==
  /\ t \in DOMAIN task
  /\ ~task[t].child
  /\ task[t].pc \in PricingPcs
  /\ t \notin cancelled
  /\ cancelled' = cancelled \cup {t}
  /\ UNCHANGED <<envVars, chanVars, ctrlVars, task, ncalls, ghostVars>>

PriceInit ==
  /\ InitCommon
  /\ limits = [inputs |-> MaxCalls, trace |-> FALSE]
  /\ chain \in AllChains
  /\ config \in PriceConfigs

PriceNext ==
  \/ \E s \in PriceShapes : CallPriceOrder(s)
  \/ \E t \in DOMAIN task : CancelCall(t)
  \/ TaskStep
  \/ \E r \in Rids : ChainLocked(r)
  \/ \E r \in Rids : ChainFulfilled(r)
  \/ Tick
  \/ DownstreamRecv

PriceSpec == PriceInit /\ [][PriceNext]_vars

(* ------------- one evaluation, over requests and configurations -------- *)
\* evaluations in one behaviour of EvalSpec
MaxEvalCalls == 1

EvalShapes == {s \in OrderShapes : s.rid = "r1" /\ s.lockStake = 100}
EvalConfigs ==
  {c \in AllConfigs : /\ c.max_concurrent_preflights = 1
                       /\ c.order_pricing_priority = "Fifo"
                       /\ c.min_deadline \in {0, 600}}

EvalInit ==
  /\ InitCommon
  /\ limits = [inputs |-> MaxEvalCalls, trace |-> FALSE]
  /\ chain \in Chains
  /\ config \in EvalConfigs

EvalNext ==
  \/ \E s \in EvalShapes : CallPriceOrder(s)
  \/ \E t \in DOMAIN task : CancelCall(t)
  \/ TaskStep

EvalSpec == EvalInit /\ [][EvalNext]_vars

(* ------------------ a burst of orders and a new capacity --------------- *)
BurstInit ==
  /\ InitCommon
  /\ limits = [inputs |-> MaxBurst + 1, trace |-> FALSE]
  /\ chain \in Chains
  /\ config \in {c \in Configs : c.max_concurrent_preflights = 0}

BurstNext ==
  \/ CtrlStart
  \/ CtrlRecvOrder
  \/ \E t \in tasks : CtrlJoin(t)
  \/ CtrlTick
  \/ \E s \in Catalogue : SendOrder(s)
  \/ \E c \in Configs : ConfigWrite(c)
  \/ \E t \in DOMAIN task : TaskFast(t, TRUE)
  \/ \E t \in DOMAIN task : TaskChecks(t, TRUE)
  \/ \E t \in DOMAIN task : TaskPreflight(t, "ok", TRUE)
  \/ \E t \in DOMAIN task : TaskSend(t)

BurstSpec == BurstInit /\ [][BurstNext]_vars

(* ============================ properties =============================== *)
\* the outcomes of order instance n, each read from its own record
Emitted(n) == \E e \in emitted : e.order.seq = n
RecordedSkipped(n) == \E o \in db_skipped : o.seq = n

(* --------------------------------- C1 ---------------------------------- *)
\* C1 (as the spec states it): once the controller has handled Locked{r}, no
\* LockAndFulfill order of request r is sent downstream; every emitted
\* LockAndFulfill order was sent before the controller handled a Locked event
\* of its request.
C1_NoLockAfterLocked ==
  \A e \in emitted : e.order.ftype = LockAndFulfill => ~e.after_locked

(* --------------------------------- C4 ---------------------------------- *)
\* C4 (as the spec states it): no order is both emitted and recorded as
\* skipped, and a task whose token a Locked or Fulfilled event has cancelled
\* neither sends its order downstream nor writes a skip record.
C4_AtMostOneOutcome ==
  /\ \A n \in DOMAIN task : ~(Emitted(n) /\ RecordedSkipped(n))
  /\ \A t \in DOMAIN task : ~task[t].preempted_at_end

(* ------------------------------ C2, C3 --------------------------------- *)
\* the entries of an active-task table: <<request id, order id, token>>
Entries(act) ==
  UNION {{<<r, k, act[r][k]>> : k \in DOMAIN act[r]} : r \in DOMAIN act}

\* the fulfillment type an order id names
TypeOfId(order_id) == order_id[3]

\* where order x stands in the queue s
Pos(s, x) == CHOOSE i \in DOMAIN s : s[i] = x

\* queue b holds orders of queue a only, in the order they have in a
KeepsOrder(a, b) ==
  /\ Range(b) \subseteq Range(a)
  /\ \A i, j \in DOMAIN b : i < j => Pos(a, b[i]) < Pos(a, b[j])

\* the orders the dispatch that ends this step took from the queue
DispatchedNow == ((DOMAIN task') \ (DOMAIN task)) \cup (dup_dropped' \ dup_dropped)

\* the controller takes an event of this kind from the bus in this step
HandlesEvent(kind) ==
  /\ ctrl_pc = "running"
  /\ order_state_rx # <<>>
  /\ Head(order_state_rx).kind = kind
  /\ order_state_rx' = Tail(order_state_rx)

\* C2: the step in which the controller handles Locked{r}. After it no
\* LockAndFulfill order of r is in the pending queue or the active-task table;
\* the token of every task taken out of the table is cancelled; every other
\* entry of the table (FulfillAfterLockExpire tasks of r, tasks of other
\* requests) is still there and its token is not newly cancelled; every other
\* pending order is still pending, in its previous relative order, unless the
\* dispatch that ends the step took it.
C2_LockEventStep ==
  HandlesEvent("Locked") =>
    LET r == Head(order_state_rx).request_id
        gone(e) == e[1] = r /\ TypeOfId(e[2]) = LockAndFulfill
    IN /\ \A i \in DOMAIN pending_orders' :
            ~(pending_orders'[i].rid = r /\ pending_orders'[i].ftype = LockAndFulfill)
       /\ \A e \in Entries(active_tasks') : ~gone(e)
       /\ \A e \in Entries(active_tasks) : gone(e) => e[3] \in cancelled'
       /\ \A e \in Entries(active_tasks) :
            ~gone(e) => /\ e \in Entries(active_tasks')
                        /\ (e[3] \in cancelled' => e[3] \in cancelled)
       /\ KeepsOrder(pending_orders, pending_orders')
       /\ \A i \in DOMAIN pending_orders :
            LET o == pending_orders[i]
            IN ~(o.rid = r /\ o.ftype = LockAndFulfill) =>
                 (o \in Range(pending_orders') \/ o.seq \in DispatchedNow)

C2_HandleLockEvent == [][C2_LockEventStep]_vars

\* C2 happens: the controller has handled Locked{r}, a LockAndFulfill task of r
\* was cancelled by it, and a FulfillAfterLockExpire task of r is still in the
\* table with its token not cancelled
C2_Witness ==
  \E r \in lock_handled :
    /\ \E t \in cancelled : task[t].order.rid = r /\ task[t].order.ftype = LockAndFulfill
    /\ \E e \in Entries(active_tasks) :
         /\ e[1] = r /\ TypeOfId(e[2]) = FulfillAfterLockExpire
         /\ e[3] \notin cancelled

\* C3: the step in which the controller handles Fulfilled{r}. After it no order
\* of r, of either fulfillment type, is in the pending queue or the active-task
\* table; the token of every task of r that was in the table is cancelled; the
\* entries of other requests are unchanged and their tokens not newly
\* cancelled; the pending orders of other requests are still pending, in their
\* previous relative order, unless the dispatch that ends the step took them.
C3_FulfillEventStep ==
  HandlesEvent("Fulfilled") =>
    LET r == Head(order_state_rx).request_id
    IN /\ \A i \in DOMAIN pending_orders' : pending_orders'[i].rid # r
       /\ \A e \in Entries(active_tasks') : e[1] # r
       /\ \A e \in Entries(active_tasks) : e[1] = r => e[3] \in cancelled'
       /\ \A e \in Entries(active_tasks) :
            e[1] # r => /\ e \in Entries(active_tasks')
                        /\ (e[3] \in cancelled' => e[3] \in cancelled)
       /\ KeepsOrder(pending_orders, pending_orders')
       /\ \A i \in DOMAIN pending_orders :
            LET o == pending_orders[i]
            IN o.rid # r => (o \in Range(pending_orders') \/ o.seq \in DispatchedNow)

C3_HandleFulfillEvent == [][C3_FulfillEventStep]_vars

\* C3 happens: the controller has handled Fulfilled{r}, a task of r was
\* cancelled by it and is in the table no more, and a task of another request
\* is still in the table with its token not cancelled
C3_Witness ==
  \E r \in fulfill_handled :
    /\ \E t \in cancelled : task[t].order.rid = r
    /\ r \notin DOMAIN active_tasks
    /\ \E e \in Entries(active_tasks) : e[1] # r /\ e[3] \notin cancelled

(* --------------------------------- C5 ---------------------------------- *)
\* the tasks of the JoinSet js that have not finished
Running(js, tk) == {t \in js : tk[t].pc # "done"}

\* C5 (as the spec states it): after every step of the controller that spawns
\* a task, the number of running pricing tasks is at most the capacity in
\* effect at that dispatch.
C5_SpawnStep ==
  (tasks' \ tasks # {}) => Cardinality(Running(tasks', task')) <= current_capacity'

C5_RunningWithinCapacity == [][C5_SpawnStep]_vars

(* --------------------------------- C6 ---------------------------------- *)
\* the stake an order commits when it is emitted
lockin_stake(e) == IF e.kind = "Lock" THEN e.order.lockStake ELSE 0

RECURSIVE SumLockinStake(_)
SumLockinStake(S) ==
  IF S = {} THEN 0
  ELSE LET e == CHOOSE x \in S : TRUE
       IN lockin_stake(e) + SumLockinStake(S \ {e})

\* C6 (as the spec states it): the stake of the orders emitted as Lock (none of
\* them is resolved in these behaviours) never exceeds the stake balance; and
\* with a balance of 150, of two orders with lock_stake 100 priced one after
\* the other, the second is not emitted once the first is.
C6_StakeConserved ==
  /\ SumLockinStake(emitted) <= chain.stake_balance
  /\ (/\ chain.stake_balance = 150
      /\ \A n \in {1, 2} : /\ n \in DOMAIN task
                           /\ task[n].order.ftype = LockAndFulfill
                           /\ task[n].order.lockStake = 100
      /\ Emitted(1))
     => ~Emitted(2)

(* --------------------------------- C7 ---------------------------------- *)
\* C7 (as the spec states it): every order emitted as Lock passed, with the
\* balances its evaluation read, lockin_stake <= available stake and
\* gas_price * fulfill_gas(order) <= available gas, fulfill_gas being the
\* request-shape estimate of the order, on the fast path and on the preflight
\* path alike.
C7_LockFeasible ==
  \A e \in emitted :
    e.kind = "Lock" =>
      /\ e.readings.read
      /\ e.order.lockStake <= e.readings.stake
      /\ e.readings.gas_price * estimate_gas_to_fulfill(config, e.order) <= e.readings.gas

(* --------------------------------- C10 --------------------------------- *)
\* C10 (as the spec states it): price_order does not return Lock or
\* ProveAfterLockExpire for a LockAndFulfill order whose request the database
\* recorded as locked when the call began, nor for a FulfillAfterLockExpire
\* order whose request it recorded as fulfilled.
C10_DuplicateStateGuard ==
  \A t \in DOMAIN task :
    ( \/ (task[t].order.ftype = LockAndFulfill /\ task[t].locked_at_call)
      \/ (task[t].order.ftype = FulfillAfterLockExpire /\ task[t].fulfilled_at_call) )
    => task[t].res.kind \notin {"Lock", "ProveAfterLockExpire"}

FairInit ==
  /\ InitCommon
  /\ limits = [inputs |-> MaxFairInputs, trace |-> FALSE]
  /\ chain \in Chains
  /\ config \in Configs

FairSpec ==
  /\ FairInit /\ [][Next]_vars
  /\ WF_vars(CtrlStep) /\ WF_vars(TaskStep) /\ WF_vars(DownstreamRecv)

\* order instance n was taken from the inbound channel
Received(n) ==
  /\ n \in 1..nsent
  /\ \A i \in DOMAIN new_order_rx : new_order_rx[i].seq # n

\* order instance n is in the pending queue or has a task that has not ended
InPipeline(n) ==
  \/ \E i \in DOMAIN pending_orders : pending_orders[i].seq = n
  \/ (n \in DOMAIN task /\ task[n].pc # "done")

Left(n) == Received(n) /\ ~InPipeline(n)

\* cancelled by preemption: taken out of the pending queue by a Locked or
\* Fulfilled event, or a task that ended on its cancelled token
Preempted(n) ==
  \/ n \in removed_pending
  \/ (n \in DOMAIN task /\ task[n].how = "cancelled" /\ n \in cancelled)

\* dropped at dispatch as a duplicate
Dropped(n) == n \in dup_dropped

Count(b) == IF b THEN 1 ELSE 0

Outcomes(n) ==
  Count(Emitted(n)) + Count(RecordedSkipped(n)) + Count(Preempted(n)) + Count(Dropped(n))

PricedToSend(t) == task[t].res.kind \in {"Lock", "ProveAfterLockExpire"}

\* the order of task t is not sent downstream, and once the task has ended
\* otherwise than on its cancelled token the order has its skip record
SkippedNotEmitted(t) ==
  /\ ~PricedToSend(t)
  /\ ~Emitted(t)
  /\ (task[t].pc = "done" /\ task[t].how # "cancelled") => RecordedSkipped(t)

\* C11 (as the spec states it): an order whose client address is not in a
\* configured allow-list, or is in a configured deny-list, is skipped and
\* recorded as skipped, never emitted.
C11_IdentityFilter ==
  \A t \in DOMAIN task :
    ( \/ /\ config.allow_client_addresses # <<>>
         /\ task[t].order.client \notin config.allow_client_addresses[1]
      \/ /\ config.deny_requestor_addresses # <<>>
         /\ task[t].order.client \in config.deny_requestor_addresses[1] )
    => SkippedNotEmitted(t)

\* C12 (as the spec states it): an order whose selector is not supported is
\* skipped and recorded as skipped, never emitted.
C12_SelectorFilter ==
  \A t \in DOMAIN task : ~is_supported(task[t].order.selector) => SkippedNotEmitted(t)

\* lock_expiration of a LockAndFulfill order, order_expiration of a
\* FulfillAfterLockExpire order
EffectiveExpiration(o) ==
  IF o.ftype = FulfillAfterLockExpire THEN OrderExpiration(o) ELSE LockExpiration(o)

\* C13 (as the spec states it): price_order gives no Lock and no
\* ProveAfterLockExpire to an order with effective_expiration <= now +
\* min_deadline (the clock stands still in these behaviours).
C13_LivenessGuard ==
  \A t \in DOMAIN task :
    EffectiveExpiration(task[t].order) <= now + config.min_deadline => ~PricedToSend(t)

\* C14 (as the spec states it): a LockAndFulfill order is emitted as Lock with
\* target_timestamp 0 and expire_timestamp bidding_start + lock_timeout; a
\* FulfillAfterLockExpire order is emitted as ProveAfterLockExpire with
\* target_timestamp bidding_start + lock_timeout and expire_timestamp
\* bidding_start + timeout.
C14_Annotations ==
  \A e \in emitted :
    IF e.order.ftype = LockAndFulfill
    THEN /\ e.kind = "Lock"
         /\ e.target_timestamp = 0
         /\ e.expire_timestamp = e.order.biddingStart + e.order.lockTimeout
    ELSE /\ e.kind = "ProveAfterLockExpire"
         /\ e.target_timestamp = e.order.biddingStart + e.order.lockTimeout
         /\ e.expire_timestamp = e.order.biddingStart + e.order.timeout

\* C15 (as the spec states it): a LockAndFulfill order whose lock_stake exceeds
\* max_stake is skipped and recorded as skipped, whatever the stake balance.
C15_MaxStake ==
  \A t \in DOMAIN task :
    (task[t].order.ftype = LockAndFulfill /\ task[t].order.lockStake > config.max_stake)
    => SkippedNotEmitted(t)

\* C16 (as the spec states it): a LockAndFulfill order whose max_price is below
\* gas_price * fulfill_gas is skipped and recorded as skipped, whatever the gas
\* balance.
C16_PriceBelowGasCost ==
  \A t \in DOMAIN task :
    ( /\ task[t].order.ftype = LockAndFulfill
      /\ task[t].order.maxPrice < chain.gas_price * estimate_gas_to_fulfill(config, task[t].order) )
    => SkippedNotEmitted(t)

\* C17 (as the spec states it): an order whose preflight succeeds with a
\* journal larger than max_journal_bytes gets no Lock and no
\* ProveAfterLockExpire from that preflight, and is never emitted.
C17_JournalLimit ==
  \A t \in DOMAIN task :
    task[t].order.journal_bytes > config.max_journal_bytes
    => ~(task[t].res.staged /\ PricedToSend(t))

\* C18 (as the spec states it): when max_price / mcycle_price rounds to zero
\* cycles, price_order returns Skip without running the preflight: the
\* evaluation of such a LockAndFulfill order never stands before the preflight
\* and gives no Lock.
C18_ZeroExecLimit ==
  \A t \in DOMAIN task :
    ( /\ task[t].order.ftype = LockAndFulfill
      /\ calculate_exec_limit_from_price(task[t].order.maxPrice, config.mcycle_price) = 0 )
    => (task[t].pc # "preflight" /\ ~PricedToSend(t))

(* -------------------------------- C19 ---------------------------------- *)
\* C19 (as the spec states it): at the moment an order is sent on the
\* downstream channel its expire_timestamp is strictly greater than the
\* current time.
C19_LiveAtEmission == \A e \in emitted : e.expire_timestamp > e.sent_at

(* -------------------------------- C20 ---------------------------------- *)
\* the step takes an order from the inbound channel
AcceptsOrder == Len(new_order_rx') < Len(new_order_rx)

\* the step spawns a pricing task
SpawnsTask == (DOMAIN task') \ (DOMAIN task) # {}

\* C20 (as the spec states it): after the cancellation signal has been raised
\* the controller accepts no further inbound order and spawns no further
\* pricing task.
C20_QuiescentAfterSignal == [][cancel_token => (~AcceptsOrder /\ ~SpawnsTask)]_vars

\* C20 (amended): once the controller has taken the cancellation branch of its
\* loop it accepts no further inbound order and spawns no further pricing task;
\* until then an inbound order that is ready wins over the raised signal.
C20_QuiescentAfterBranch ==
  [][(ctrl_pc = "draining" \/ ctrl_pc = "exited") => (~AcceptsOrder /\ ~SpawnsTask)]_vars

\* the controller is past its cancellation branch while an order waits in the
\* inbound channel and another one waits in the pending queue
C20_Witness ==
  /\ ctrl_pc = "draining"
  /\ new_order_rx # <<>>
  /\ pending_orders # <<>>

C22_EventsBeforeSpawn ==
  [][ /\ Len(order_state_rx') < Len(order_state_rx) => order_state_rx' = Tail(order_state_rx)
      /\ SpawnsTask => order_state_rx' = <<>> ]_vars

(* -------------------------------- C24 ---------------------------------- *)
\* C24 (as the spec states it): an order whose evaluation ended in an error of
\* a balance, gas-price or database read is not recorded as skipped.
C24_RpcErrorNotRecorded ==
  \A t \in DOMAIN task : task[t].rpc_failed => ~RecordedSkipped(t)

(* -------------------------------- C25 ---------------------------------- *)
\* C25 (as the spec states it): every order delivered downstream carries its
\* annotations; image_id and input_id are set (the order was staged) on every
\* path that emits.
C25_AllAnnotations == \A e \in emitted : e.staged

(* -------------------------------- C26 ---------------------------------- *)
\* the step cancels or removes a pricing task that is active
DisturbsActive ==
  \/ cancelled' # cancelled
  \/ ~(tasks \subseteq tasks')
  \/ \E r \in DOMAIN active_tasks :
       r \notin DOMAIN active_tasks' \/ ~(DOMAIN active_tasks[r] \subseteq DOMAIN active_tasks'[r])

\* the controller runs with another capacity or priority mode than configured
StaleConfig ==
  /\ ctrl_pc = "running"
  /\ \/ current_capacity # read_config(config).capacity
     \/ priority_mode # read_config(config).priority

C27_Backpressure ==
  [][Cardinality(tasks) >= current_capacity
       => (~AcceptsOrder /\ Len(pending_orders') <= Len(pending_orders))]_vars

MaxLagInputs == 2

\* an event of a request the broker holds no order of
ForeignEvent == [kind |-> "Locked", request_id |-> "r0"]

\* the controller is in its loop and ORDER_STATE_CAPACITY events of other
\* requests were broadcast since it last received one
LagInit ==
  /\ stream = StreamStart
  /\ now = 0
  /\ db_locked = {} /\ db_fulfilled = {} /\ db_skipped = {} /\ db_committed = {}
  /\ order_cache = {}
  /\ new_order_rx = <<>> /\ priced_orders_rx = <<>>
  /\ order_state_rx = [i \in 1..ORDER_STATE_CAPACITY |-> ForeignEvent]
  /\ ctrl_pc = "running" /\ cancel_token = FALSE
  /\ pending_orders = <<>> /\ active_tasks = EmptyMap /\ tasks = {}
  /\ config \in {c \in Configs : c.max_concurrent_preflights = 1}
  /\ current_capacity = read_config(config).capacity
  /\ priority_mode = read_config(config).priority
  /\ chain \in Chains
  /\ limits = [inputs |-> MaxLagInputs, trace |-> FALSE]
  /\ task = EmptyMap /\ cancelled = {}
  /\ nsent = 0 /\ nenv = 0 /\ ncalls = 0
  /\ emitted = {} /\ removed_pending = {} /\ dup_dropped = {} /\ lost_pending = {}
  /\ lock_handled = {} /\ fulfill_handled = {}
  /\ eval_count = [k \in OrderIds |-> 0]

\* the loop of the controller, past its set-up
LagCtrlStep ==
  \/ CtrlRecvOrder
  \/ CtrlStateChange
  \/ \E t \in tasks : CtrlJoin(t)
  \/ CtrlTick
  \/ CtrlCancelled
  \/ \E t \in tasks : CtrlDrainJoin(t)
  \/ CtrlExit

LagNext == LagCtrlStep \/ TaskStep \/ EnvStep

LagSpec == LagInit /\ [][LagNext]_vars

(* -------------------------------- C23 ---------------------------------- *)
\* the step in which the subscription's recv() returns Err(Lagged)
ReceivesLagged ==
  /\ order_state_rx # <<>>
  /\ Head(order_state_rx) = Lagged
  /\ order_state_rx' = Tail(order_state_rx)

\* C23 (as the spec states it): when the controller's subscription has lagged
\* and lost messages, the controller stops instead of going on in its loop.
C23_LagIsFatal == [][ReceivesLagged => ctrl_pc' # "running"]_vars

(* ----------------------- abort and restart ----------------------------- *)
\* inputs of a behaviour in which the supervisor may abort the controller
MaxRestartInputs == 2

\* a controller whose abort would also drop the inbound receiver
CtrlAbort_drops_inbound ==
  /\ ctrl_pc = "running"
  /\ InputAllowed
  /\ nenv' = nenv + 1
  /\ ctrl_pc' = "aborted"
  /\ lost_pending' = lost_pending \cup {o.seq : o \in Range(pending_orders)}
  /\ pending_orders' = <<>> /\ active_tasks' = EmptyMap /\ tasks' = {}
  /\ order_state_rx' = <<>>
  /\ new_order_rx' = <<>>
  /\ UNCHANGED <<now, chain, config, db_locked, db_fulfilled, db_skipped, db_committed,
                 limits, stream, priced_orders_rx, nsent, cancel_token, current_capacity,
                 priority_mode, order_cache, taskVars, emitted, removed_pending,
                 dup_dropped, lock_handled, fulfill_handled, eval_count>>

\* "pricing_task.abort()": the controller's future is dropped at an await of
\* its loop. Its locals go with it: the pending queue, the active-task table,
\* the JoinSet, the subscription and the guard of the inbound receiver, which
\* stays in the picker. The blocking closures of the pricing tasks are detached
\* and run on
CtrlAbort ==
  /\ ctrl_pc = "running"
  /\ InputAllowed
  /\ nenv' = nenv + 1
  /\ ctrl_pc' = "aborted"
  /\ lost_pending' = lost_pending \cup {o.seq : o \in Range(pending_orders)}
  /\ pending_orders' = <<>> /\ active_tasks' = EmptyMap /\ tasks' = {}
  /\ order_state_rx' = <<>>
  /\ UNCHANGED <<now, chain, config, db_locked, db_fulfilled, db_skipped, db_committed,
                 limits, stream, new_order_rx, priced_orders_rx, nsent, cancel_token,
                 current_capacity, priority_mode, order_cache, taskVars, emitted,
                 removed_pending, dup_dropped, lock_handled, fulfill_handled,
                 eval_count>>

RestartInit ==
  /\ InitCommon
  /\ limits = [inputs |-> MaxRestartInputs, trace |-> FALSE]
  /\ chain \in Chains
  /\ config \in Configs

RestartNext == Next \/ CtrlAbort

\* the runtime's scheduling, the supervisor starting the controller again
RestartSpec ==
  /\ RestartInit /\ [][RestartNext]_vars
  /\ WF_vars(CtrlStep) /\ WF_vars(TaskStep) /\ WF_vars(DownstreamRecv)

(* -------------------------------- C29 ---------------------------------- *)
\* order instance n waits in the inbound channel
InInbound(n) == \E i \in DOMAIN new_order_rx : new_order_rx[i].seq = n

\* no controller is running: none was started yet, or the last one was aborted
ControllerDown == ctrl_pc \in {"idle", "aborted"}

MaxStreamSteps == 4

\* the stream ends: "break"
StreamBreak(st, why) == [st EXCEPT !.pc = "closed", !.why = why]

\* an order stream that would let every pong pass
StreamHandle_any_pong(st, f, send_ok) ==
  IF f.type = "Order" THEN [st EXCEPT !.yielded = @ + 1]
  ELSE IF f.type = "Ping"
  THEN IF send_ok THEN [st EXCEPT !.out = Append(@, [type |-> "Pong", data |-> f.data])]
       ELSE StreamBreak(st, "send")
  ELSE IF f.type = "Pong" THEN [st EXCEPT !.ping_data = <<>>]
  ELSE IF f.type \in {"Close", "Error", "End"} THEN StreamBreak(st, f.type)
  ELSE st

\* the arm "msg_result = socket.next()" of the select
StreamHandle(st, f, send_ok) ==
  IF f.type = "Order" THEN [st EXCEPT !.yielded = @ + 1]
  ELSE IF f.type = "Ping"
  THEN IF send_ok THEN [st EXCEPT !.out = Append(@, [type |-> "Pong", data |-> f.data])]
       ELSE StreamBreak(st, "send")
  ELSE IF f.type = "Pong"
  THEN IF st.ping_data # <<>> /\ f.data # st.ping_data[1]
       THEN StreamBreak([st EXCEPT !.ping_data = <<>>], "pong")
       ELSE [st EXCEPT !.ping_data = <<>>]
  ELSE IF f.type \in {"Close", "Error", "End"} THEN StreamBreak(st, f.type)
  ELSE st

pickerVars ==
  <<now, chain, config, db_locked, db_fulfilled, db_skipped, db_committed, nenv,
    limits, chanVars, ctrlVars, taskVars, ghostVars>>

\* a frame of the server arrives and is handled
StreamRecv(f, send_ok) ==
  /\ stream.pc = "open"
  /\ stream.n < MaxStreamSteps
  /\ stream' = [StreamHandle(stream, f, send_ok) EXCEPT
                 !.n = @ + 1, !.last = f,
                 !.pongs = IF f.type = "Pong" THEN @ + 1 ELSE @]
  /\ UNCHANGED pickerVars

\* the arm "ping_interval.tick()" of the select
StreamPing(ping_bytes, send_ok) ==
  /\ stream.pc = "open"
  /\ stream.n < MaxStreamSteps
  /\ stream' =
       LET st == [stream EXCEPT !.ping_data = <<ping_bytes>>, !.n = @ + 1,
                                !.last = [type |-> "Tick", data |-> ping_bytes]]
       IN IF send_ok
          THEN [st EXCEPT !.out = Append(@, [type |-> "Ping", data |-> ping_bytes]),
                          !.last_ping = <<ping_bytes>>]
          ELSE StreamBreak(st, "send")
  /\ UNCHANGED pickerVars

StreamInit ==
  /\ InitCommon
  /\ limits = [inputs |-> 0, trace |-> FALSE]
  /\ chain = CHOOSE c \in Chains : TRUE
  /\ config = CHOOSE c \in Configs : TRUE

StreamNext ==
  \/ \E f \in ServerFrames, send_ok \in BOOLEAN : StreamRecv(f, send_ok)
  \/ \E ping_bytes \in Payloads, send_ok \in BOOLEAN : StreamPing(ping_bytes, send_ok)

StreamSpec == StreamInit /\ [][StreamNext]_vars

(* -------------------------------- C28 ---------------------------------- *)
\* the step handles a frame of the given type
Handles(type) == stream'.n = stream.n + 1 /\ stream'.last.type = type

\* the step answers the server's ping with a pong of the same payload (or ends
\* the stream because the pong could not be sent)
AnswersPing ==
  Handles("Ping") =>
    \/ stream'.out = Append(stream.out, [type |-> "Pong", data |-> stream'.last.data])
    \/ stream'.why = "send"

\* a stream that has ended yields no further order
EndedForGood == stream.pc = "closed" => stream' = stream

\* C28 (as the spec states it): the stream answers every server ping with a
\* pong of the same payload, ends when a pong arrives whose payload differs
\* from the payload of the last ping the client sent, and goes on when the
\* payload is the same.
C28_PongOfLastPing ==
  [][ /\ AnswersPing
      /\ EndedForGood
      /\ (Handles("Pong") /\ stream.last_ping # <<>>) =>
           IF stream'.last.data # stream.last_ping[1]
           THEN stream'.pc = "closed"
           ELSE stream'.pc = "open" ]_vars

\* C28 (amended): the stream answers every server ping with a pong of the same
\* payload; a pong that arrives while a ping of the client is unanswered ends
\* the stream when its payload differs from that ping's and lets it go on when
\* it is the same; a pong that arrives while no ping is unanswered is ignored
\* whatever its payload.
C28_PongOfOpenPing ==
  [][ /\ AnswersPing
      /\ EndedForGood
      /\ Handles("Pong") =>
           IF stream.ping_data # <<>> /\ stream'.last.data # stream.ping_data[1]
           THEN stream'.pc = "closed" /\ stream'.yielded = stream.yielded
           ELSE stream'.pc = "open" ]_vars

\* the stream has answered a ping of the server and has ended on a pong whose
\* payload differs from the payload of its own unanswered ping
C28_Witness ==
  /\ stream.pc = "closed" /\ stream.why = "pong"
  /\ \E i \in DOMAIN stream.out : stream.out[i].type = "Pong"

(* -------------------------------- C31 ---------------------------------- *)
\* where the spec has the arrival branch put the order: at the head when its
\* maximum price exceeds the threshold, at the tail otherwise
EnqueueAsSpecified(pend, order) ==
  IF order.maxPrice > FAST_LOCK_THRESHOLD_WEI THEN <<order>> \o pend
  ELSE Append(pend, order)

\* the dispatch step of this iteration takes nothing from the queue
NoDispatch == max_orders_per_iteration(current_capacity, Cardinality(tasks),
                                       Len(pending_orders) + 1) = 0

\* C31: on arrival an order whose maximum price exceeds the high-value
\* threshold is inserted at the head of the pending queue, every other order is
\* appended at the tail, and the orders already pending keep their relative
\* order (observed on the iterations whose dispatch step takes nothing).
C31_InsertByPrice ==
  [][(AcceptsOrder /\ NoDispatch) =>
       /\ pending_orders' = EnqueueAsSpecified(pending_orders, Head(new_order_rx))
       /\ KeepsOrder(pending_orders', pending_orders)]_vars

(* -------------------------------- C32 ---------------------------------- *)
\* the orders are of the same class: both high-value or both not
SameClass(a, b) ==
  (a.maxPrice >= FAST_LOCK_THRESHOLD_WEI) = (b.maxPrice >= FAST_LOCK_THRESHOLD_WEI)

\* C32: under the FIFO priority mode the order the dispatch step takes first
\* from the pending queue arrived before every other pending order of its
\* class.
C32_FifoTies ==
  (ctrl_pc = "running" /\ priority_mode = "Fifo" /\ pending_orders # <<>>) =>
    LET first == pending_orders[select_next_pricing_order(pending_orders, priority_mode)]
    IN \A i \in DOMAIN pending_orders :
         SameClass(pending_orders[i], first) => first.seq <= pending_orders[i].seq

(* ------------- evaluations against a filling pipeline ------------------ *)
\* calls of price_order_and_update_state in one behaviour of GasSpec: as many
\* as it takes to commit orders until the reservation exceeds the balance
MaxGasCalls == 4

GasShapes == {s \in PriceShapes : s.lockTimeout = 900 /\ s.lockStake = 100}
GasConfigs == {c \in PriceConfigs : c.min_deadline = 0}

\* the picker of the tests: orders are priced by direct calls and the test
\* commits what was priced; the tasks keep the record of their reads
GasInit ==
  /\ InitCommon
  /\ limits = [inputs |-> MaxGasCalls, trace |-> TRUE]
  /\ chain \in AllChains
  /\ config \in GasConfigs

\* the reads answer and the guest runs within its limit, as in the test
GasNext ==
  \/ \E s \in GasShapes : CallPriceOrder(s)
  \/ \E t \in DOMAIN task : TaskFast(t, TRUE)
  \/ \E t \in DOMAIN task : TaskChecks(t, TRUE)
  \/ \E t \in DOMAIN task : TaskPreflight(t, "ok", TRUE)
  \/ \E t \in DOMAIN task : TaskSend(t)
  \/ \E t \in DOMAIN task : TaskRecordSkip(t)
  \/ DownstreamRecv

GasSpec == GasInit /\ [][GasNext]_vars

(* -------------------------------- C33 ---------------------------------- *)
\* the balance minus gas_price x the estimates of the committed orders, every
\* committed order counted with the estimate of the configuration, and 0 when
\* that is negative
ExpectedAvailableGas ==
  LET reserved == chain.gas_price * config.fulfill_gas_estimate * Cardinality(db_committed)
  IN IF chain.gas_balance > reserved THEN chain.gas_balance - reserved ELSE 0

\* the reads task t makes in this step
NewReads(t) ==
  IF t \in DOMAIN task
  THEN SubSeq(task'[t].reads, Len(task[t].reads) + 1, Len(task'[t].reads))
  ELSE task'[t].reads

GasReadsAsExpected ==
  \A t \in DOMAIN task' : \A i \in DOMAIN NewReads(t) :
    NewReads(t)[i].what = "gas" => NewReads(t)[i].value = ExpectedAvailableGas

ReadNames(t) == [i \in DOMAIN task[t].reads |-> task[t].reads[i].what]

\* the sequence of reads of one evaluation
SpecifiedReads == <<"stake", "gas", "preflight", "gas">>

\* C34: within one pricing evaluation the reads are sequenced stake balance,
\* gas balance, preflight, second gas check, and no order is emitted without
\* the gas check that follows the preflight.
C34_ReadSequence ==
  \A t \in DOMAIN task :
    /\ Len(ReadNames(t)) <= Len(SpecifiedReads)
    /\ ReadNames(t) = SubSeq(SpecifiedReads, 1, Len(ReadNames(t)))
    /\ task[t].how = "emitted" => ReadNames(t) = SpecifiedReads

(* -------------------------------- C35 ---------------------------------- *)
\* the active-task table holds the cancellation handle of task t under the
\* request id and the identity of its order
Tracked(t) ==
  LET request_id == task[t].order.rid
      order_id == OrderId(task[t].order)
  IN /\ request_id \in DOMAIN active_tasks
     /\ order_id \in DOMAIN active_tasks[request_id]
     /\ active_tasks[request_id][order_id] = t

\* C35: every pricing task of the controller that is running and has not been
\* cancelled has its cancellation handle in the active-task table under its
\* request id and order identity.
C35_ActiveTaskTracked ==
  ctrl_pc = "running" =>
    \A t \in tasks : (task[t].pc # "done" /\ ~IsCancelled(t)) => Tracked(t)

(* ------------------- orders that keep arriving ------------------------- *)
\* order instances the behaviours of FloodSpec have at one time: the tasks of a
\* full controller, two arrivals and the order that waits
MaxFloodOrders == 6

\* the order that takes instance number n: a high-value order of each of the
\* four identities, an order below the threshold, and a high-value order that
\* repeats an identity
FloodShape(n) ==
  LET rid == IF n \in {1, 2, 6} THEN "r1" ELSE "r2"
      ftype == IF n \in {1, 3, 5, 6} THEN LockAndFulfill ELSE FulfillAfterLockExpire
      maxPrice == IF n = 5 THEN 99 ELSE 100
  IN CHOOSE s \in OrderShapes :
       /\ DefaultRequest(s) /\ s.lockTimeout = 900 /\ s.lockStake = 100
       /\ s.rid = rid /\ s.ftype = ftype /\ s.maxPrice = maxPrice

\* order instance n waits in the pending queue
InPending(n) == \E i \in DOMAIN pending_orders : pending_orders[i].seq = n

\* instance number n names an order the picker has or had
InUse(n) == InInbound(n) \/ InPending(n) \/ n \in DOMAIN task \/ n \in dup_dropped

\* the relay sends one more order when the controller has taken the last one
Arrive(n) ==
  /\ new_order_rx = <<>>
  /\ ~InUse(n)
  /\ new_order_rx' = Append(new_order_rx, MkOrder(FloodShape(n), n))
  /\ UNCHANGED <<envVars, order_state_rx, priced_orders_rx, nsent, ctrlVars, taskVars,
                 ghostVars>>

\* an order that has left the picker and the downstream pipeline is forgotten:
\* its records go, its instance number is free for a later order, and with the
\* task of an identity its dedup cache entry goes, so that the later order
\* stands for one of a new identity
Forget(n) ==
  /\ \/ (n \in DOMAIN task /\ task[n].pc = "done" /\ n \notin tasks)
     \/ n \in dup_dropped
  /\ \A i \in DOMAIN priced_orders_rx : priced_orders_rx[i].order.seq # n
  /\ task' = MapRemove(task, n)
  /\ cancelled' = cancelled \ {n}
  /\ dup_dropped' = dup_dropped \ {n}
  /\ emitted' = {e \in emitted : e.order.seq # n}
  /\ db_committed' = {e \in db_committed : e.order.seq # n}
  /\ db_skipped' = {o \in db_skipped : o.seq # n}
  /\ IF n \in DOMAIN task
     THEN /\ order_cache' = order_cache \ {OrderId(task[n].order)}
          /\ eval_count' = [eval_count EXCEPT ![OrderId(task[n].order)] = 0]
     ELSE UNCHANGED <<order_cache, eval_count>>
  /\ UNCHANGED <<now, chain, config, db_locked, db_fulfilled, nenv, limits, stream,
                 chanVars, ctrl_pc, cancel_token, pending_orders, active_tasks,
                 tasks, current_capacity, priority_mode, ncalls,
                 removed_pending, lost_pending, lock_handled, fulfill_handled>>

\* a controller of capacity 3 under the FIFO mode, not yet started
FloodInit ==
  /\ InitCommon
  /\ limits = [inputs |-> 0, trace |-> FALSE]
  /\ chain \in Chains
  /\ config \in {c \in Configs : /\ c.max_concurrent_preflights = 1
                                 /\ c.order_pricing_priority = "Fifo"}

\* the steps of pricing task t when every read answers
FloodTaskStep(t) ==
  \/ TaskFast(t, TRUE)
  \/ TaskChecks(t, TRUE)
  \/ TaskPreflight(t, "ok", TRUE)
  \/ TaskSend(t)
  \/ TaskRecordSkip(t)

\* the controller's loop; the configuration does not change and no shutdown is
\* asked for, and a capacity tick finds nothing to dispatch that the step before
\* it has not dispatched
FloodCtrlStep ==
  \/ CtrlStart
  \/ CtrlRecvOrder
  \/ \E t \in tasks : CtrlJoin(t)

\* task t is the first of the tasks that have not ended
FirstRunning(t) ==
  /\ t \in DOMAIN task /\ task[t].pc # "done"
  /\ \A u \in DOMAIN task : task[u].pc # "done" => t <= u

\* order instance n can be forgotten
Forgettable(n) == ENABLED Forget(n)

\* nothing is left to take downstream or to forget
Settled ==
  /\ priced_orders_rx = <<>>
  /\ \A n \in 1..MaxFloodOrders : ~Forgettable(n)

\* no pricing task is running
AllPriced == \A t \in DOMAIN task : task[t].pc = "done"

\* the behaviours in which the downstream consumer takes a priced order as soon
\* as it is sent, an order that has left is forgotten at once, the tasks that
\* run together end in the order of their instance numbers, and the pricing of
\* an order is over before the next order arrives or the controller goes on
FloodNext ==
  \/ DownstreamRecv
  \/ \E n \in 1..MaxFloodOrders : Forget(n)
  \/ \E t \in 1..MaxFloodOrders : Settled /\ FirstRunning(t) /\ TaskFast(t, TRUE)
  \/ \E t \in 1..MaxFloodOrders : Settled /\ FirstRunning(t) /\ TaskChecks(t, TRUE)
  \/ \E t \in 1..MaxFloodOrders :
       Settled /\ FirstRunning(t) /\ TaskPreflight(t, "ok", TRUE)
  \/ \E t \in 1..MaxFloodOrders : Settled /\ FirstRunning(t) /\ TaskSend(t)
  \/ \E t \in 1..MaxFloodOrders : Settled /\ FirstRunning(t) /\ TaskRecordSkip(t)
  \/ Settled /\ AllPriced /\ CtrlStart
  \/ Settled /\ AllPriced /\ CtrlRecvOrder
  \/ \E t \in tasks : Settled /\ AllPriced /\ CtrlJoin(t)
  \/ \E n \in 1..MaxFloodOrders : Settled /\ AllPriced /\ Arrive(n)

\* the runtime's scheduling: the controller, every task and the downstream
\* consumer take the steps they can take
FloodSpec ==
  /\ FloodInit /\ [][FloodNext]_vars
  /\ WF_vars(FloodCtrlStep)
  /\ WF_vars(\E t \in 1..MaxFloodOrders : FirstRunning(t) /\ FloodTaskStep(t))
  /\ WF_vars(DownstreamRecv)

(* -------------------------------- C36 ---------------------------------- *)
\* the orders below the high-value threshold
LowValue == {n \in 1..MaxFloodOrders : FloodShape(n).maxPrice < FAST_LOCK_THRESHOLD_WEI}

\* C36: while the capacity is at least 1 and every pricing task completes,
\* every order placed in the pending queue is eventually selected for dispatch
\* or removed by a Locked / Fulfilled event, also while other orders keep
\* arriving (stated for the orders below the threshold, which wait at the tail).
C36_NoStarvation ==
  \A n \in LowValue : (InPending(n) /\ current_capacity >= 1) ~> ~InPending(n)

(* ------------- the order stream and a server that answers -------------- *)
\* the pings the client has sent, in the order it sent them
PingsSent(st) == SelectSeq(st.out, LAMBDA m : m.type = "Ping")

\* the frames of a server that answers every ping of the client with a pong of
\* that ping's payload, in the order of the pings, and sends no other pong
AnsweringFrames(st) ==
  {f \in ServerFrames : f.type # "Pong"}
    \cup (IF st.pongs < Len(PingsSent(st))
          THEN {[type |-> "Pong", data |-> PingsSent(st)[st.pongs + 1].data]}
          ELSE {})

AnsweringNext ==
  \/ \E f \in AnsweringFrames(stream), send_ok \in BOOLEAN : StreamRecv(f, send_ok)
  \/ \E ping_bytes \in Payloads, send_ok \in BOOLEAN : StreamPing(ping_bytes, send_ok)

AnsweringSpec == StreamInit /\ [][AnsweringNext]_vars

(* -------------------------------- C37 ---------------------------------- *)
\* C37: when the server answers every ping of the client with a pong of that
\* ping's payload, in the order the pings were sent, the order stream never
\* ends because of a pong mismatch, also when a second ping is sent before the
\* pong of the first has arrived.
C37_NoMismatch == ~(stream.pc = "closed" /\ stream.why = "pong")

(* ------------------- the dedup cache across restarts ------------------- *)
\* inputs of a behaviour in which an order is presented again after an abort
MaxAbortInputs == 3

AbortInit ==
  /\ InitCommon
  /\ limits = [inputs |-> MaxAbortInputs, trace |-> FALSE]
  /\ chain \in Chains
  /\ config \in {c \in Configs : /\ c.max_concurrent_preflights = 1
                                 /\ c.order_pricing_priority = "Fifo"}

\* the relay presents an order again only while the aborted controller is down
PresentedAgainWhileDown == nsent = 0 \/ ctrl_pc = "aborted"

AbortNext ==
  \/ CtrlStep
  \/ TaskStep
  \/ \E s \in Catalogue : PresentedAgainWhileDown /\ SendOrder(s)
  \/ \E r \in Rids : ChainLocked(r)
  \/ \E r \in Rids : ChainFulfilled(r)
  \/ Tick
  \/ \E c \in Configs : ConfigWrite(c)
  \/ DownstreamRecv
  \/ Shutdown
  \/ \E k \in OrderIds : CacheExpire(k)
  \/ CtrlAbort

AbortSpec == AbortInit /\ [][AbortNext]_vars

(* -------------------------------- C38 ---------------------------------- *)
\* the order of instance n, which waits in the inbound channel or the queue
WaitingOrder(n) ==
  CHOOSE o \in Range(new_order_rx) \cup Range(pending_orders) : o.seq = n

\* a task of identity k was spawned, by this controller or one before it, and
\* the hour of its cache entry has not ended
SpawnedWithinLifetime(k) ==
  /\ eval_count[k] >= 1
  /\ \E t \in DOMAIN task : OrderId(task[t].order) = k

\* C38: the dedup cache outlives the abort and the restart of the controller.
\* The step that aborts or starts a controller leaves the cache as it is, and
\* an order presented to a controller is dropped at dispatch as a duplicate,
\* without a pricing task, when a task of its identity was spawned within the
\* lifetime of the cache entry, by this controller or by one before it, whether
\* or not that task has finished.
C38_DedupOutlivesRestart ==
  [][/\ ctrl_pc' # ctrl_pc => order_cache' = order_cache
     /\ \A n \in DispatchedNow :
          SpawnedWithinLifetime(OrderId(WaitingOrder(n)))
            => n \in dup_dropped' /\ n \notin DOMAIN task']_vars

\* C38 happens: the controller started after an abort has dropped an order as a
\* duplicate of the one task there is, which the aborted controller spawned
\* (it is in no JoinSet) and which has not finished
C38_Witness ==
  /\ ctrl_pc = "running"
  /\ \E n \in dup_dropped, t \in DOMAIN task :
       /\ DOMAIN task = {t}
       /\ t \notin tasks
       /\ task[t].pc # "done"
       /\ OrderId(task[t].order) \in order_cache
       /\ n > t

(* ----------------------------- fetch_order ----------------------------- *)
\* orders the server lists for one request id, and calls in one behaviour
MaxListed == 3
MaxFetchCalls == 2

\* request digests of the orders a server lists under one request id
FetchDigests == {"d1", "d2"}

\* the lists of orders the server may answer with, an order by its digest
ListedOrders == [request_digest : FetchDigests]
RECURSIVE Lists(_)
Lists(k) ==
  IF k = 0 THEN {<<>>}
  ELSE Lists(k - 1) \cup {Append(l, o) : l \in {m \in Lists(k - 1) : Len(m) = k - 1},
                                       o \in ListedOrders}

FetchOk(order) == [ok |-> TRUE, order |-> order, msg |-> ""]
FetchErr(msg) == [ok |-> FALSE, order |-> <<>>, msg |-> msg]

\* "for order in orders { if order.request_digest == digest { return Ok(order) } }"
RECURSIVE first_with_digest(_, _)
first_with_digest(orders, digest) ==
  IF orders = <<>> THEN FetchErr("No order found")
  ELSE IF Head(orders).request_digest = digest THEN FetchOk(Head(orders))
  ELSE first_with_digest(Tail(orders), digest)

\* fetch_order: status_ok is response.status().is_success(), orders the list
\* in the body, request_digest the Option the caller passes
fetch_order(status_ok, orders, request_digest) ==
  IF ~status_ok THEN FetchErr("server")
  ELSE IF orders = <<>> THEN FetchErr("No order found")
  ELSE IF Len(orders) = 1 THEN FetchOk(orders[1])
  ELSE IF request_digest # <<>> THEN first_with_digest(orders, request_digest[1])
  ELSE FetchErr("Multiple orders found, please provide a request digest")

\* one call of fetch_order on the client
FetchCall(status_ok, orders, request_digest) ==
  /\ Len(stream.fetched) < MaxFetchCalls
  /\ stream' = [stream EXCEPT !.fetched =
                  Append(@, [status_ok |-> status_ok, orders |-> orders,
                             request_digest |-> request_digest,
                             result |-> fetch_order(status_ok, orders, request_digest)])]
  /\ UNCHANGED pickerVars

FetchNext ==
  \E status_ok \in BOOLEAN, orders \in Lists(MaxListed),
     request_digest \in {<<>>} \cup {<<d>> : d \in FetchDigests} :
    FetchCall(status_ok, orders, request_digest)

FetchSpec == StreamInit /\ [][FetchNext]_vars

(* -------------------------------- C39 ---------------------------------- *)
\* C39: fetch_order returns an error when the server lists no order for the
\* id; when it returns an order and the caller supplied a request digest, the
\* digest of the returned order is the supplied one, however many orders the
\* server lists.
C39_FetchByDigest ==
  \A i \in DOMAIN stream.fetched :
    LET call == stream.fetched[i]
    IN /\ call.orders = <<>> => ~call.result.ok
       /\ (call.result.ok /\ call.request_digest # <<>>)
            => call.result.order.request_digest = call.request_digest[1]

(* -------------------------------- C40 ---------------------------------- *)
\* what a handler leaves behind: the table, the queue, the cancelled tokens
AfterLock(r, st) ==
  LET h == handle_lock_event(r, st.active_tasks, st.pending_orders)
  IN [active_tasks |-> h.active_tasks, pending_orders |-> h.pending_orders,
      cancelled |-> st.cancelled \cup h.cancel]

AfterFulfill(r, st) ==
  LET h == handle_fulfill_event(r, st.active_tasks, st.pending_orders)
  IN [active_tasks |-> h.active_tasks, pending_orders |-> h.pending_orders,
      cancelled |-> st.cancelled \cup h.cancel]

\* the table, the queue and the cancelled tokens of the controller as they are
HandlerState ==
  [active_tasks |-> active_tasks, pending_orders |-> pending_orders,
   cancelled |-> cancelled]

\* C40: the preemption handlers are idempotent and Fulfilled subsumes Locked.
\* From every table and queue the controller reaches, handling Locked{r} twice
\* leaves the table, the queue and the cancelled tokens as handling it once
\* does, the same holds of Fulfilled{r}, and handling Locked{r} and then
\* Fulfilled{r} leaves them as handling Fulfilled{r} alone does.
C40_HandlersIdempotent ==
  \A r \in Rids :
    /\ AfterLock(r, AfterLock(r, HandlerState)) = AfterLock(r, HandlerState)
    /\ AfterFulfill(r, AfterFulfill(r, HandlerState)) = AfterFulfill(r, HandlerState)
    /\ AfterFulfill(r, AfterLock(r, HandlerState)) = AfterFulfill(r, HandlerState)

\* C40 happens: the table holds a LockAndFulfill task and another task of one
\* request, none cancelled yet, so that Locked{r} takes the first out and
\* Fulfilled{r} after it the second, and an order of the request is pending
C40_Witness ==
  \E r \in Rids :
    /\ AfterLock(r, HandlerState).active_tasks # active_tasks
    /\ AfterFulfill(r, AfterLock(r, HandlerState)).active_tasks
         # AfterLock(r, HandlerState).active_tasks
    /\ AfterFulfill(r, HandlerState).cancelled # cancelled
    /\ \E i \in DOMAIN pending_orders : pending_orders[i].rid = r

====
